---------------------------- MODULE Spec2Model ----------------------------
(***************************************************************************)
(* A model of the meeting bot.                                             *)
(*                                                                         *)
(* Part I  (SpecPage): the script injected into the meeting page,          *)
(*   src/electron/contentScript.ts: the patched RTCPeerConnection, the     *)
(*   discovery of the outbound audio sender and playBotAudio, which swaps  *)
(*   a synthetic track onto the sender and restores the microphone.        *)
(* Part II (SpecMgr): the Session Coordinator, src/lib/MeetingManager.ts:  *)
(*   scan, joinMeeting, leaveMeeting, launchBotBrowser, closeBotBrowser.   *)
(* Part III (SpecFleet): the same coordinator with one meeting more than   *)
(*   the session ceiling of src/electron/main.ts.                          *)
(* Part IV (SpecMon): the Transport Monitor, src/unnamed/part_005.         *)
(* Part V  (SpecTranscript): one meeting's transcript and reply flow,      *)
(*   handleTranscript of src/lib/audioManager.ts.                          *)
(* Part VI (SpecSocket): the socket of one TranscriptionService,           *)
(*   src/lib/transcription.ts: connect, onopen, onclose and its timer.     *)
(* Part VII (SpecApp): the Electron main process, src/electron/main.ts:    *)
(*   createMeetingWindow and the 'join-meeting', 'close-meeting' and       *)
(*   'bot-speak-data' handlers.                                            *)
(* Part VIII (SpecAuto): the monitor and the main process together, with   *)
(*   one meeting more than the session ceiling.                            *)
(* SpecSpeak and SpecAppFair are the speak requests of Part I and the      *)
(*   main process of Part VII under weak fairness of the callbacks that    *)
(*   their event loops have due.                                           *)
(*                                                                         *)
(* The page and the coordinator run in different processes with their own  *)
(* event loops.  Every action is one run-to-completion step of an event    *)
(* loop: a handler or the continuation of an async function from one       *)
(* suspension point (an await on a timer, a network round trip, a          *)
(* replaceTrack, a page load) to the next.  Continuations of promises that *)
(* are already resolved run as microtasks, inside the same step.           *)
(***************************************************************************)
EXTENDS Integers, Sequences, FiniteSets, TLC

VARIABLES
    \* ---- Part I: contentScript.ts, lines 18-22 ----
    activePeerConnections, \* every connection the page created, in order
    localPeerConnection,   \* index into activePeerConnections, 0 = null
    localAudioSender,      \* the audio sender of that connection, 0 = null
    transcriptionSources,  \* remote track -> sources feeding the worklet node
    originalUserTrack,     \* a track, 0 = null
    audioSwapLock,         \* BOOLEAN
    addTrackTimers,        \* pending setTimeout(..., 100) of addTrack
    captureTimers,         \* pending setTimeout(captureAudioSender, 500)
    replaceQueue,          \* replaceTrack calls not yet settled, in call order
    req,                   \* the playBotAudio calls
    \* ---- Part II: MeetingManager.ts, lines 23-43 ----
    meetings,              \* meetingID -> MeetingStatus
    botWindows,            \* meetingID -> window, 0 = no entry
    transcriptionServices, \* meetingID -> service, 0 = no entry
    transcriptHistories,   \* meetingID -> number of entries of its history
    autoManage,            \* BOOLEAN
    windows,               \* every BrowserWindow launched, with its service
    launches,              \* number of calls of launchBotBrowser so far
    timer,                 \* BOOLEAN: the interval timer of start() is set
    scansAwaiting,         \* runs of scan() awaiting the meeting list
    lastStep,              \* what the step just taken did (see NoStep)
    \* ---- Part IV: the Transport Monitor, unnamed/part_005, lines 19-21 ----
    joinedMeetings,        \* the identifiers already notified
    checkInterval,         \* BOOLEAN: the polling timer is set
    pollsInFlight,         \* runs of checkMeetings awaiting axios.get
    detected,              \* id -> number of onMeetingDetected calls so far
    lastPoll,              \* what the step just taken did (see NoPoll)
    \* ---- Part V: one meeting's transcript, audioManager.ts, line 312 ----
    history,               \* transcriptHistories.get(meetingID)
    emitted,               \* number of emitTranscript calls so far
    awaitingLLM,           \* reply flows awaiting generateResponse
    awaitingTTS,           \* reply flows awaiting createAudioData
    lastSegment,           \* the segment handleTranscript was last given
    lastHeard,             \* what the step just taken did (see NoHeard)
    aiService,             \* which GeminiService the coordinator is built with
    \* ---- Part VI: one TranscriptionService, transcription.ts, 14-18 ----
    ws,                    \* "none", "connecting", "open"; after disconnect()
                           \* "closing" (close event pending) or "released"
    reconnectAttempts,
    reconnectDue,          \* when the reconnect timer is due (-1: not set)
    clock,                 \* the time, in ms
    closures,              \* abnormal closures since the socket last opened
    lastSocket,            \* what the step just taken did (see NoSocketStep)
    \* ---- Part VII: the Electron main process, main.ts, lines 38-43 ----
    meetingWindows,        \* id -> state of the window registered ("none")
    activeBotDetails,      \* the identifiers with a BotStatus
    announced,             \* identifiers sent 'bot-joined', no 'bot-left' since
    refused,               \* identifiers whose last join met the ceiling
    awaitingJoin,          \* identifiers a 'join-meeting' handler awaits
                           \* createMeetingWindow for
    lastApp                \* what the step just taken did (see NoAppStep)

pageVars == <<activePeerConnections, localPeerConnection, localAudioSender,
              originalUserTrack, audioSwapLock, addTrackTimers,
              captureTimers, replaceQueue, req, transcriptionSources>>

timerVars == <<timer, scansAwaiting>>

mgrVars == <<meetings, botWindows, transcriptionServices, transcriptHistories,
             autoManage, windows, launches, timerVars, lastStep>>

monVars == <<joinedMeetings, checkInterval, pollsInFlight, detected, lastPoll>>

trVars ==
    <<history, emitted, awaitingLLM, awaitingTTS, lastSegment, lastHeard,
      aiService>>

\* what a step of the page, of the coordinator, of the monitor, of the
\* transcript leaves alone
sockVars ==
    <<ws, reconnectAttempts, reconnectDue, clock, closures, lastSocket>>

appVars ==
    <<meetingWindows, activeBotDetails, announced, refused, awaitingJoin,
      lastApp>>

notPage == <<mgrVars, monVars, trVars, sockVars, appVars>>
notMgr == <<pageVars, monVars, trVars, sockVars, appVars>>
notMon == <<pageVars, mgrVars, trVars, sockVars, appVars>>
notTr == <<pageVars, mgrVars, monVars, sockVars, appVars>>
notSock == <<pageVars, mgrVars, monVars, trVars, appVars>>
notApp == <<pageVars, mgrVars, monVars, trVars, sockVars>>

vars == <<pageVars, mgrVars, monVars, trVars, sockVars, appVars>>

-----------------------------------------------------------------------------
(* Bounds of the model *)

MaxConns == 2
MaxReqs == 2
MaxRemoteTracks == 1
MaxSources == 2

(* The runs explored have up to MaxConns connections and one speak request, *)
(* or one connection and up to MaxReqs speak requests.                      *)
Fits(nConns, nReqs) == nConns <= 1 \/ nReqs <= 1

(* Program constants *)

SpeakWaitMs == 3000
RetryWaitMs == 2000
PollIntervalMs == 200
MaxRetries == 3
BackoffBaseMs == 1000
BackoffCapMs == 5000

Conns == 1..MaxConns
Reqs == 1..MaxReqs
RemoteTracks == 1..MaxRemoteTracks  \* the remote audio tracks of the call

(* Tracks: 0 is null, Mic(c) the microphone track the page attached to      *)
(* connection c, Bot(r) the synthetic track built by speak request r.       *)
Mic(c) == c
Bot(r) == MaxConns + r
IsBot(t) == t > MaxConns
IsMic(t) == t \in Conns
BotReq(t) == t - MaxConns

(* connectionState.  The script treats 'connecting' like 'connected'        *)
(* everywhere, so the model has one state, "connected", for both.           *)
ConnStates == {"new", "connected", "failed", "closed"}

-----------------------------------------------------------------------------
(* Part I: helpers.  conns is a value of activePeerConnections. *)

NConns == Len(activePeerConnections)
StateOf(c) == activePeerConnections[c].connectionState
TrackOf(c) == activePeerConnections[c].track

\* getSenders().find(s => s.track?.kind === 'audio') finds a sender
HasAudioSender(conns, c) == conns[c].track # 0

Dead(conns, c) == conns[c].connectionState \in {"closed", "failed"}

MaxOf(S) == IF S = {} THEN 0 ELSE CHOOSE x \in S : \A y \in S : y <= x

findActivePeerConnection(conns) ==
    LET live == {c \in 1..Len(conns) :
                    conns[c].connectionState = "connected"}
        open == {c \in 1..Len(conns) : conns[c].connectionState # "closed"}
    IN IF live # {} THEN MaxOf(live) ELSE MaxOf(open)

findMediaPeerConnectionWithAudioSender(conns) ==
    MaxOf({c \in 1..Len(conns) : ~Dead(conns, c) /\ HasAudioSender(conns, c)})

\* The binding <<localPeerConnection, localAudioSender, originalUserTrack>>
\* after findActivePeerConnectionAndUpdate() ran on binding b.
findActivePeerConnectionAndUpdate(conns, b) ==
    LET pc == findActivePeerConnection(conns)
    IN IF pc # 0 /\ pc # b[1]
       THEN IF HasAudioSender(conns, pc) THEN <<pc, pc, conns[pc].track>>
                                         ELSE <<pc, b[2], b[3]>>
       ELSE b

Binding == <<localPeerConnection, localAudioSender, originalUserTrack>>

SetBinding(b) ==
    /\ localPeerConnection' = b[1]
    /\ localAudioSender' = b[2]
    /\ originalUserTrack' = b[3]

(* One playBotAudio call.  pc is the suspension point it waits at; attempt  *)
(* is the loop variable of playBotAudioWithRetry and wait the delay, in ms,  *)
(* of the backoff timer it waits on; lost tells that the error of the last   *)
(* failed attempt named a closed or failed connection; holds,                *)
(* acquired, swapped, replaceCalls, started, restoreAttempted,              *)
(* restoreFailed and result record what the call did.                       *)
NewReq == [pc |-> "idle", attempt |-> 0, wait |-> 0, lost |-> FALSE,
           holds |-> FALSE, acquired |-> FALSE, swapped |-> 0,
           replaceCalls |-> 0, started |-> FALSE,
           restoreAttempted |-> FALSE, restoreFailed |-> FALSE,
           result |-> "none"]

\* A call that returned: nothing of it is pending any more.
Finish(rq, res) == [rq EXCEPT !.pc = "done", !.attempt = 0, !.lost = FALSE,
                              !.result = res]

(* The synchronous stretches of playBotAudio work on a record              *)
(* [conns: activePeerConnections, b: the binding, lock: audioSwapLock,    *)
(*  q: replaceQueue, rq: the call].                                        *)

ReplaceOp(c, t, r, aw) == [sender |-> c, track |-> t, r |-> r, awaited |-> aw]

\* ReleaseLock without audioSwapLock = false
ReleaseLockForgotten(st, res) == [st EXCEPT !.rq = Finish(@, res)]

\* audioSwapLock = false at the end of the catch block or of onended
ReleaseLock(st, res) ==
    [st EXCEPT !.lock = FALSE, !.rq = Finish([@ EXCEPT !.holds = FALSE], res)]

\* playBotAudio's catch block, up to its await
CatchBlock(st, r) ==
    LET pc == IF st.b[1] # 0 THEN st.b[1]
              ELSE findActivePeerConnection(st.conns)
    IN IF pc # 0 /\ HasAudioSender(st.conns, pc) /\ st.b[3] # 0
       THEN [st EXCEPT !.q = Append(@, ReplaceOp(pc, st.b[3], r, TRUE)),
                       !.rq = [@ EXCEPT !.pc = "restoring",
                                        !.restoreAttempted = TRUE]]
       ELSE ReleaseLock(st, "failed")

Min(a, b) == IF a <= b THEN a ELSE b

\* Math.min(1000 * Math.pow(2, attempt - 1), 5000)
BackoffDelay(attempt) == Min(BackoffBaseMs * 2 ^ (attempt - 1), BackoffCapMs)

\* AttemptError without the test attempt < maxRetries
AttemptErrorAlwaysWaits(st, r, lostWord) ==
    LET u == findActivePeerConnectionAndUpdate(st.conns, st.b)
        b2 == IF lostWord
              THEN <<findActivePeerConnection(st.conns), u[2], u[3]>>
              ELSE st.b
        st2 == [st EXCEPT !.b = b2, !.rq = [@ EXCEPT !.lost = lostWord]]
    IN [st2 EXCEPT !.rq = [@ EXCEPT !.pc = "backoff",
                                    !.wait = BackoffDelay(st.rq.attempt)]]

\* AttemptError without the throw that follows the loop: playBotAudio goes
\* on to source.start()
AttemptErrorThenPlays(st, r, lostWord) ==
    LET u == findActivePeerConnectionAndUpdate(st.conns, st.b)
        b2 == IF lostWord
              THEN <<findActivePeerConnection(st.conns), u[2], u[3]>>
              ELSE st.b
        st2 == [st EXCEPT !.b = b2, !.rq = [@ EXCEPT !.lost = lostWord]]
    IN IF st.rq.attempt < MaxRetries
       THEN [st2 EXCEPT !.rq = [@ EXCEPT !.pc = "backoff",
                                         !.wait = BackoffDelay(st.rq.attempt)]]
       ELSE [st2 EXCEPT !.rq = [@ EXCEPT !.pc = "playing", !.started = TRUE,
                                         !.attempt = 0]]

\* the catch clause of one attempt of playBotAudioWithRetry;
\* lostWord: the error message includes 'closed' or 'failed'
AttemptError(st, r, lostWord) ==
    LET u == findActivePeerConnectionAndUpdate(st.conns, st.b)
        b2 == IF lostWord
              THEN <<findActivePeerConnection(st.conns), u[2], u[3]>>
                          ELSE st.b
        st2 == [st EXCEPT !.b = b2, !.rq = [@ EXCEPT !.lost = lostWord]]
    IN IF st.rq.attempt < MaxRetries
       THEN [st2 EXCEPT !.rq = [@ EXCEPT !.pc = "backoff",
                                         !.wait = BackoffDelay(st.rq.attempt)]]
       ELSE CatchBlock(st2, r)

playBotAudioInternal(st, r) ==
    LET lp == st.b[1]
    IN IF lp = 0 THEN AttemptError(st, r, FALSE)
       ELSE IF Dead(st.conns, lp) THEN AttemptError(st, r, TRUE)
       ELSE IF ~HasAudioSender(st.conns, lp) THEN AttemptError(st, r, FALSE)
       ELSE [st EXCEPT !.q = Append(@, ReplaceOp(lp, Bot(r), r, TRUE)),
                       !.rq = [@ EXCEPT !.pc = "replacing",
                                        !.replaceCalls = @ + 1]]

\* AfterRetryWait without the assignments of lines 275-281
AfterRetryWaitKeepsBinding(st, r, found) == playBotAudioInternal(st, r)

\* what playBotAudioWithRetry does with the result of waitForAudioSender
AfterRetryWait(st, r, found) ==
    LET b2 == IF found # 0
              THEN <<found, found,
                     IF st.b[3] = 0 THEN st.conns[found].track ELSE st.b[3]>>
              ELSE st.b
    IN playBotAudioInternal([st EXCEPT !.b = b2], r)

\* one attempt of playBotAudioWithRetry, up to its first await that waits
Attempt(st, r) ==
    LET found == findMediaPeerConnectionWithAudioSender(st.conns)
    IN IF found # 0 THEN AfterRetryWait(st, r, found)
       ELSE [st EXCEPT !.rq = [@ EXCEPT !.pc = "retryWait"]]

\* playBotAudio from audioSwapLock = true on
Acquire(st, r, bufferFails) ==
    LET st2 == [st EXCEPT !.lock = TRUE,
                          !.rq = [@ EXCEPT !.holds = TRUE, !.acquired = TRUE,
                                           !.attempt = 1]]
    IN IF bufferFails THEN CatchBlock(st2, r) ELSE Attempt(st2, r)

\* AfterSpeakWait without the return of its else branch
AfterSpeakWaitNoReturn(st, r, found, bufferFails) ==
    Acquire(IF found # 0
            THEN [st EXCEPT !.b = <<found, found, st.conns[found].track>>]
            ELSE st, r, bufferFails)

\* playBotAudio once waitForAudioSender(3000) resolved
AfterSpeakWait(st, r, found, bufferFails) ==
    IF found # 0
    THEN Acquire([st EXCEPT !.b = <<found, found, st.conns[found].track>>],
                 r, bufferFails)
    ELSE [st EXCEPT !.rq = Finish(@, "noAudioPath")]

\* the interval callback of waitForAudioSender gives up once
\* Date.now() - start > maxWaitMs
TimedOut(elapsed, maxWaitMs) == elapsed > maxWaitMs

\* The readings of Date.now() - start an interval callback is checked with:
\* one within the wait and one beyond it.
Elapsed(maxWaitMs) == {PollIntervalMs, maxWaitMs + PollIntervalMs}

Cur(r) == [conns |-> activePeerConnections, b |-> Binding,
           lock |-> audioSwapLock, q |-> replaceQueue, rq |-> req[r]]

Commit(st, r) ==
    /\ activePeerConnections' = st.conns
    /\ SetBinding(st.b)
    /\ audioSwapLock' = st.lock
    /\ replaceQueue' = st.q
    /\ req' = [req EXCEPT ![r] = st.rq]

Issued == Cardinality({r \in Reqs : req[r].pc # "idle"})

-----------------------------------------------------------------------------
(* Part I: the page's own events *)

PageInit ==
    /\ activePeerConnections = <<>>
    /\ localPeerConnection = 0
    /\ localAudioSender = 0
    /\ originalUserTrack = 0
    /\ audioSwapLock = FALSE
    /\ addTrackTimers = {}
    /\ captureTimers = {}
    /\ replaceQueue = <<>>
    /\ req = [r \in Reqs |-> NewReq]
    /\ transcriptionSources = [t \in RemoteTracks |-> 0]

\* new RTCPeerConnection(config)
NewPeerConnection ==
    /\ NConns < MaxConns
    /\ Fits(NConns + 1, Issued)
    /\ activePeerConnections' =
          Append(activePeerConnections, [connectionState |-> "new", track |-> 0])
    /\ UNCHANGED <<localPeerConnection, localAudioSender, originalUserTrack,
                   audioSwapLock, addTrackTimers, captureTimers, replaceQueue,
                   req>>
    /\ UNCHANGED notPage
    /\ UNCHANGED transcriptionSources

\* pc.addTrack(micTrack): the page attaches its microphone
AddTrack(c) ==
    /\ c \in 1..NConns
    /\ StateOf(c) # "closed"
    /\ TrackOf(c) = 0
    /\ activePeerConnections' = [activePeerConnections EXCEPT ![c].track = Mic(c)]
    /\ localPeerConnection' = c
    /\ addTrackTimers' = addTrackTimers \cup {c}
    /\ UNCHANGED <<localAudioSender, originalUserTrack, audioSwapLock,
                   captureTimers, replaceQueue, req>>
    /\ UNCHANGED notPage
    /\ UNCHANGED transcriptionSources

\* the setTimeout(..., 100) callback of addTrack
AddTrackTimer(c) ==
    /\ c \in addTrackTimers
    /\ addTrackTimers' = addTrackTimers \ {c}
    /\ IF TrackOf(c) = Mic(c)
       THEN /\ localAudioSender' = c
            /\ originalUserTrack' = Mic(c)
       ELSE UNCHANGED <<localAudioSender, originalUserTrack>>
    /\ UNCHANGED <<activePeerConnections, localPeerConnection, audioSwapLock,
                   captureTimers, replaceQueue, req>>
    /\ UNCHANGED notPage
    /\ UNCHANGED transcriptionSources

(* connectTrackToTranscription(track).  The pipeline (audio context and     *)
(* worklet node) is created on first use and kept; when its creation fails  *)
(* the call returns without connecting.  Otherwise a new MediaStream source  *)
(* of the track is connected to the worklet node: the track's identity is    *)
(* not looked at.  A count of MaxSources stands for MaxSources or more.      *)
PipelineReady(sources) == \E t \in RemoteTracks : sources[t] > 0

connectTrackToTranscription(sources, t, initialises) ==
    IF PipelineReady(sources) \/ initialises
    THEN [sources EXCEPT ![t] = IF @ < MaxSources THEN @ + 1 ELSE @]
    ELSE sources

\* a 'track' event of connection c with the remote audio track t
RemoteTrack(c) ==
    /\ c \in 1..NConns
    /\ StateOf(c) # "closed"
    /\ c \notin captureTimers
    /\ \E t \in RemoteTracks, initialises \in BOOLEAN :
         transcriptionSources' =
            connectTrackToTranscription(transcriptionSources, t, initialises)
    /\ captureTimers' = captureTimers \cup {c}
    /\ UNCHANGED <<activePeerConnections, localPeerConnection, localAudioSender,
                   originalUserTrack, audioSwapLock, addTrackTimers,
                   replaceQueue, req>>
    /\ UNCHANGED notPage

\* the setTimeout(() => this.captureAudioSender(), 500) callback
captureAudioSender(c) ==
    /\ c \in captureTimers
    /\ captureTimers' = captureTimers \ {c}
    /\ IF HasAudioSender(activePeerConnections, c)
       THEN SetBinding(<<c, c, TrackOf(c)>>)
       ELSE UNCHANGED <<localPeerConnection, localAudioSender, originalUserTrack>>
    /\ UNCHANGED <<activePeerConnections, audioSwapLock, addTrackTimers,
                   replaceQueue, req>>
    /\ UNCHANGED notPage
    /\ UNCHANGED transcriptionSources

NextStates(s) ==
    CASE s = "new" -> {"connected", "closed"}
      [] s = "connected" -> {"failed", "closed"}
      [] s = "failed" -> {"closed"}
      [] OTHER -> {}

\* pc.onconnectionstatechange
ConnectionStateChange(c) ==
    /\ c \in 1..NConns
    /\ \E s \in NextStates(StateOf(c)) :
         LET conns == [activePeerConnections EXCEPT ![c].connectionState = s]
         IN /\ activePeerConnections' = conns
            /\ IF s \in {"closed", "failed"}
               THEN SetBinding(findActivePeerConnectionAndUpdate(conns, Binding))
               ELSE UNCHANGED <<localPeerConnection, localAudioSender,
                                originalUserTrack>>
    /\ UNCHANGED <<audioSwapLock, addTrackTimers, captureTimers, replaceQueue,
                   req>>
    /\ UNCHANGED notPage
    /\ UNCHANGED transcriptionSources

-----------------------------------------------------------------------------
(* Part I: playBotAudio *)

pageEnv == <<addTrackTimers, captureTimers>>

\* api.onBotSpeak(pcmData => playBotAudio(pcmData)), up to the first await
\* that waits.  empty: pcmData has no samples; bufferFails: building the
\* AudioContext, the buffer or the source throws.
Speak(r) ==
    /\ req[r].pc = "idle"
    /\ \A q \in Reqs : q < r => req[q].pc # "idle"
    /\ Fits(NConns, Issued + 1)
    /\ \E empty \in BOOLEAN, bufferFails \in BOOLEAN :
         LET st == Cur(r)
             found == findMediaPeerConnectionWithAudioSender(st.conns)
         IN Commit(IF empty THEN [st EXCEPT !.rq = Finish(@, "emptyPcm")]
                   ELSE IF st.lock THEN [st EXCEPT !.rq = Finish(@, "rejected")]
                   ELSE IF st.b[2] = 0 \/ st.b[3] = 0
                        THEN IF found # 0
                             THEN AfterSpeakWait(st, r, found, bufferFails)
                             ELSE [st EXCEPT !.rq = [@ EXCEPT !.pc = "waitSender"]]
                   ELSE Acquire(st, r, bufferFails), r)
    /\ UNCHANGED pageEnv
    /\ UNCHANGED notPage
    /\ UNCHANGED transcriptionSources

\* the interval callback of waitForAudioSender(3000) in playBotAudio
PollSender(r) ==
    /\ req[r].pc = "waitSender"
    /\ \E bufferFails \in BOOLEAN, elapsed \in Elapsed(SpeakWaitMs) :
         LET st == Cur(r)
             found == findMediaPeerConnectionWithAudioSender(st.conns)
         IN Commit(IF found # 0 \/ TimedOut(elapsed, SpeakWaitMs)
                   THEN AfterSpeakWait(st, r, found, bufferFails)
                   ELSE st, r)
    /\ UNCHANGED pageEnv
    /\ UNCHANGED notPage
    /\ UNCHANGED transcriptionSources

\* the interval callback of waitForAudioSender(2000) in playBotAudioWithRetry
PollRetry(r) ==
    /\ req[r].pc = "retryWait"
    /\ \E elapsed \in Elapsed(RetryWaitMs) :
         LET st == Cur(r)
             found == findMediaPeerConnectionWithAudioSender(st.conns)
         IN Commit(IF found # 0 \/ TimedOut(elapsed, RetryWaitMs)
                   THEN AfterRetryWait(st, r, found)
                   ELSE st, r)
    /\ UNCHANGED pageEnv
    /\ UNCHANGED notPage
    /\ UNCHANGED transcriptionSources

\* the setTimeout(resolve, delay) between two attempts
BackoffElapsed(r) ==
    /\ req[r].pc = "backoff"
    /\ Commit(Attempt([Cur(r) EXCEPT !.rq = [@ EXCEPT !.attempt = @ + 1,
                                                       !.wait = 0]], r), r)
    /\ UNCHANGED pageEnv
    /\ UNCHANGED notPage
    /\ UNCHANGED transcriptionSources

\* sender.replaceTrack(track) takes effect, or is rejected, when it settles
SetTrack(conns, c, t) == [conns EXCEPT ![c].track = t]

\* playBotAudio after "await playBotAudioWithRetry(botAudioTrack, 3)"
AfterSwap(st, r, startFails) ==
    IF startFails THEN CatchBlock(st, r)
    ELSE [st EXCEPT !.rq = [@ EXCEPT !.pc = "playing", !.started = TRUE,
                                     !.attempt = 0]]

\* the await of audioSender.replaceTrack(botAudioTrack) settles
SwapSettled(r) ==
    /\ req[r].pc = "replacing"
    /\ replaceQueue # <<>>
    /\ Head(replaceQueue).r = r /\ Head(replaceQueue).awaited
    /\ LET op == Head(replaceQueue)
           st == [Cur(r) EXCEPT !.q = Tail(@)]
       IN \E outcome \in {"ok", "reject", "rejectLost"}, startFails \in BOOLEAN :
            /\ st.conns[op.sender].connectionState = "closed" => outcome # "ok"
            /\ Commit(IF outcome = "ok"
                      THEN AfterSwap([st EXCEPT
                                        !.conns = SetTrack(@, op.sender, op.track),
                                        !.rq = [@ EXCEPT !.swapped = op.sender]],
                                     r, startFails)
                      ELSE AttemptError(st, r, outcome = "rejectLost"), r)
    /\ UNCHANGED pageEnv
    /\ UNCHANGED notPage
    /\ UNCHANGED transcriptionSources

\* the result of a restoring replaceTrack(originalUserTrack)
Restored(st, op) ==
    IF st.conns[op.sender].connectionState = "closed"
    THEN [st EXCEPT !.rq = [@ EXCEPT !.restoreFailed = TRUE]]
    ELSE [st EXCEPT !.conns = SetTrack(@, op.sender, op.track)]

\* the await of sender.replaceTrack(originalUserTrack) in the catch block
\* settles; the block ends with audioSwapLock = false
CatchRestoreSettled(r) ==
    /\ req[r].pc = "restoring"
    /\ replaceQueue # <<>>
    /\ Head(replaceQueue).r = r /\ Head(replaceQueue).awaited
    /\ LET op == Head(replaceQueue)
           st == [Cur(r) EXCEPT !.q = Tail(@)]
       IN Commit(ReleaseLock(Restored(st, op), "failed"), r)
    /\ UNCHANGED pageEnv
    /\ UNCHANGED notPage
    /\ UNCHANGED transcriptionSources

\* source.onended
PlaybackEnded(r) ==
    /\ req[r].pc = "playing"
    /\ LET st == Cur(r)
           st2 == IF st.b[2] # 0 /\ st.b[3] # 0
                  THEN [st EXCEPT
                          !.q = Append(@, ReplaceOp(st.b[2], st.b[3], r, FALSE)),
                          !.rq = [@ EXCEPT !.restoreAttempted = TRUE]]
                  ELSE st
       IN Commit(ReleaseLock(st2, "played"), r)
    /\ UNCHANGED pageEnv
    /\ UNCHANGED notPage
    /\ UNCHANGED transcriptionSources

\* the replaceTrack(originalUserTrack) of onended settles (nothing awaits it)
EndedRestoreSettled ==
    /\ replaceQueue # <<>>
    /\ ~Head(replaceQueue).awaited
    /\ LET op == Head(replaceQueue)
           st == [Cur(op.r) EXCEPT !.q = Tail(@)]
       IN Commit(Restored(st, op), op.r)
    /\ UNCHANGED pageEnv
    /\ UNCHANGED notPage
    /\ UNCHANGED transcriptionSources

PageNext ==
    \/ NewPeerConnection
    \/ \E c \in Conns : AddTrack(c)
    \/ \E c \in Conns : AddTrackTimer(c)
    \/ \E c \in Conns : RemoteTrack(c)
    \/ \E c \in Conns : captureAudioSender(c)
    \/ \E c \in Conns : ConnectionStateChange(c)
    \/ \E r \in Reqs : Speak(r)
    \/ \E r \in Reqs : PollSender(r)
    \/ \E r \in Reqs : PollRetry(r)
    \/ \E r \in Reqs : BackoffElapsed(r)
    \/ \E r \in Reqs : SwapSettled(r)
    \/ \E r \in Reqs : CatchRestoreSettled(r)
    \/ \E r \in Reqs : PlaybackEnded(r)
    \/ EndedRestoreSettled

-----------------------------------------------------------------------------
(* Part II: the Session Coordinator, src/lib/MeetingManager.ts              *)

(* Bounds of the model *)

MaxMeetings == 2
MaxLaunches == 2
MaxHistory == 1
MaxScans == 2
MaxLogWrites == 2

(* The runs explored have one meeting and up to MaxLaunches launches, or    *)
(* up to MaxMeetings meetings and one launch.                               *)
MgrFits(nMeetings, nLaunches) ==
    /\ nLaunches <= MaxLaunches
    /\ nMeetings <= 1 \/ nLaunches <= 1

(* and no window has its log written more than MaxLogWrites times           *)
LogsFit(ms) == \A w \in DOMAIN ms.windows : ms.windows[w].logWrites <= MaxLogWrites

Ids == 1..MaxMeetings
WinIds == 1..MaxLaunches

(* A MeetingStatus.  known: the map has a record for the identifier.        *)
(* lastError is "none" for undefined.  joinsSince records history: how     *)
(* many launches scan started for the record since it last became           *)
(* running-while-idle.                                                      *)
NoMeeting == [known |-> FALSE, isRunning |-> FALSE, botState |-> "idle",
              lastError |-> "none", joinsSince |-> 0]

(* A BrowserWindow made by launch number w, together with the               *)
(* TranscriptionService made by the same launch.                            *)
(*   state: "none", "open", "closing" (close() called), "destroyed"         *)
(*   closedHandler: win.on("closed", ...) is registered                     *)
(*   launch: "none", "loading" (awaiting loadURL), "done"                   *)
(*   failure: what went wrong in the launch in progress, "none" if nothing  *)
(*   service: "none", "open", "closed" (disconnect() was called)            *)
(*   logWrites records history: how many times closeBotBrowser, closing     *)
(*     this window, had saveMeetingLog write the log of the meeting         *)
NoWindow == [m |-> 0, state |-> "none", closedHandler |-> FALSE,
             launch |-> "none", failure |-> "none", service |-> "none",
             logWrites |-> 0]

(* What the step just taken did, for the properties that speak of one run   *)
(* of scan or of closeBotBrowser.                                           *)
(*   scanFailed: it was a scan whose listing request failed                 *)
(*   by: whose step closed a window or passed the guard of joinMeeting:     *)
(*     "scan", "join", "leave", "restart"; "none" if it did neither         *)
(*   left[w]: for a window w that closeBotBrowser called close() on, what   *)
(*     saveMeetingLog had done by then: "nodata", "failed" or "saved"       *)
(*   launched: the meetings for which joinMeeting passed its guard          *)
(*   heard: for a run of handleTranscript, the segment it was given:      *)
(*     "none", "interim", "final", or "apology" for a final segment whose   *)
(*     text contains the bot's fallback apology                             *)
(*   asked: that run requested a reply from the language model              *)
NoneLeft == [w \in DOMAIN windows |-> "none"]
NoStep == [scanFailed |-> FALSE, by |-> "none", left |-> NoneLeft,
           launched |-> {}, heard |-> "none", asked |-> FALSE]

\* the record is running while the bot is idle: what scan auto-joins
RunningWhileIdle(rec) == rec.known /\ rec.isRunning /\ rec.botState = "idle"

\* the write of a record; a record that becomes running-while-idle starts
\* a new count of the launches scan makes for it
Put(old, new) ==
    IF ~RunningWhileIdle(old) /\ RunningWhileIdle(new)
    THEN [new EXCEPT !.joinsSince = 0] ELSE new

\* m.botState = state
SetState(rec, state) == Put(rec, [rec EXCEPT !.botState = state])

(* The responses of the meeting-listing request.  An "ok" response lists,   *)
(* for every identifier, "absent", "running" or "stopped".                  *)
FailureKinds == {"networkError", "failedCode", "jsonError", "unparseable"}
Listings == [Ids -> {"absent", "running", "stopped"}]
Responses == [kind : {"ok"}, list : Listings]
             \cup [kind : FailureKinds, list : {[m \in Ids |-> "absent"]}]

\* BbbClient.getMeetings: every failure yields the empty list
getMeetings(resp) ==
    IF resp.kind = "ok" THEN resp.list ELSE [m \in Ids |-> "absent"]

(* The synchronous stretches of the coordinator work on a record            *)
(* [meetings, botWindows, services, windows, launches, left, launched,     *)
(*  thrown]; thrown: the stretch ended with an exception nothing caught.    *)

CurMgr == [meetings |-> meetings, botWindows |-> botWindows,
           services |-> transcriptionServices, windows |-> windows,
           launches |-> launches, left |-> NoneLeft, launched |-> {},
           thrown |-> FALSE]

\* the record of the step that ran the stretch
StepOf(ms, by, failed) ==
    [scanFailed |-> failed,
     by |-> IF ms.left = NoneLeft /\ ms.launched = {} THEN "none" ELSE by,
     left |-> ms.left,
     launched |-> ms.launched,
     heard |-> "none", asked |-> FALSE]

Known(ms) == Cardinality({m \in DOMAIN ms.meetings : ms.meetings[m].known})

CommitMgr(ms) ==
    /\ meetings' = ms.meetings
    /\ botWindows' = ms.botWindows
    /\ transcriptionServices' = ms.services
    /\ windows' = ms.windows
    /\ launches' = ms.launches

\* this.transcriptionServices.get(id)?.disconnect(); ...delete(id)
releaseService(ms, m) ==
    LET s == ms.services[m]
    IN IF s = 0 THEN ms
       ELSE [ms EXCEPT !.windows[s].service = "closed", !.services[m] = 0]

\* saveMeetingLog: what it did for the history it found
saveMeetingLog(ms, m, writeFails) ==
    IF ~ms.meetings[m].known \/ transcriptHistories[m] = 0 THEN "nodata"
    ELSE IF writeFails THEN "failed" ELSE "saved"

\* closeBotBrowser; win.close() on a destroyed window throws
closeBotBrowser(ms, m, writeFails) ==
    LET w == ms.botWindows[m]
    IN IF w # 0
       THEN LET log == saveMeetingLog(ms, m, writeFails)
                saved == [ms EXCEPT
                            !.left[w] = log,
                            !.windows[w].logWrites =
                                IF log = "nodata" THEN @ ELSE @ + 1]
            IN IF ms.windows[w].state = "destroyed"
               THEN [saved EXCEPT !.thrown = TRUE]
               ELSE releaseService(
                      [saved EXCEPT !.windows[w].state = "closing",
                                    !.botWindows[m] = 0], m)
       ELSE releaseService(ms, m)

leaveMeeting(ms, m, writeFails) ==
    LET rec == ms.meetings[m]
        ms2 == IF rec.known
               THEN [ms EXCEPT !.meetings[m] = SetState(rec, "idle")]
               ELSE ms
    IN closeBotBrowser(ms2, m, writeFails)

(* The faults of a launch.  "createFails": new BrowserWindow throws.        *)
(* "transcription": the transcription connection fails; "script": the       *)
(* content script cannot be read.  Both are caught where they happen.       *)
LaunchFaults == {"ok", "createFails", "transcription", "script"}

\* launchBotBrowser up to "await win.loadURL(joinUrl)"
launchBotBrowser(ms, m, fault) ==
    LET w == ms.launches + 1
    IN [ms EXCEPT !.launches = w,
                  !.botWindows[m] = w,
                  !.services[m] = w,
                  !.windows[w] =
                      [NoWindow EXCEPT !.m = m, !.state = "open",
                           !.launch = "loading", !.service = "open",
                           !.failure = IF fault = "ok" THEN "none" ELSE fault]]

\* joinMeeting that leaves botState as it is until the launch has settled
MarkJoiningLate(rec) == rec

\* m.botState = "joining" at the head of joinMeeting
MarkJoining(rec) == [rec EXCEPT !.botState = "joining"]

\* a launch started by scan counts for the record
CountJoin(rec, by) ==
    IF by = "scan" THEN [rec EXCEPT !.joinsSince = @ + 1] ELSE rec

\* joinMeeting up to its await
joinMeeting(ms, m, by, fault) ==
    LET rec == ms.meetings[m]
    IN IF rec.botState \in {"joining", "connected"} THEN ms
       ELSE LET marked == CountJoin(MarkJoining(rec), by)
                ms2 == [ms EXCEPT !.launched = @ \cup {m}]
            IN IF fault = "createFails"
               THEN [ms2 EXCEPT !.launches = @ + 1,
                                !.meetings[m] =
                                    [SetState(marked, "error") EXCEPT
                                        !.lastError = "createFails"]]
               ELSE launchBotBrowser([ms2 EXCEPT !.meetings[m] = marked],
                                     m, fault)

\* scan, first loop: update existing or add new
ScanUpdate(ms, live) ==
    [ms EXCEPT !.meetings =
        [m \in DOMAIN ms.meetings |->
           LET rec == ms.meetings[m]
           IN IF live[m] = "absent" THEN rec
              ELSE IF rec.known
                   THEN Put(rec, [rec EXCEPT !.isRunning = (live[m] = "running")])
                   ELSE Put(rec, [NoMeeting EXCEPT
                                    !.known = TRUE,
                                    !.isRunning = (live[m] = "running")])]]

\* scan, second loop, from identifier k on: mark missing as not running
RECURSIVE ScanMissing(_, _, _, _)
ScanMissing(ms, live, k, writeFails) ==
    IF k \notin DOMAIN ms.meetings THEN ms
    ELSE LET rec == ms.meetings[k]
             ms2 == IF rec.known /\ live[k] = "absent"
                    THEN LET off == [ms EXCEPT !.meetings[k].isRunning = FALSE]
                         IN IF rec.botState = "connected"
                            THEN [leaveMeeting(off, k, writeFails)
                                    EXCEPT !.thrown = FALSE]
                            ELSE off
                    ELSE ms
         IN ScanMissing(ms2, live, k + 1, writeFails)

\* scan, third loop, from identifier k on: auto-join
RECURSIVE ScanAutoJoin(_, _, _)
ScanAutoJoin(ms, k, fault) ==
    IF k \notin DOMAIN ms.meetings THEN ms
    ELSE ScanAutoJoin(IF RunningWhileIdle(ms.meetings[k])
                      THEN joinMeeting(ms, k, "scan", fault) ELSE ms,
                      k + 1, fault)

\* the "closed" handler launchBotBrowser registers for window w
closedHandler(ms, w) ==
    LET m == ms.windows[w].m
        ms2 == releaseService([ms EXCEPT !.botWindows[m] = 0], m)
        rec == ms2.meetings[m]
    IN IF rec.known /\ rec.botState # "idle"
       THEN [ms2 EXCEPT !.meetings[m] = SetState(rec, "idle")]
       ELSE ms2

(* The inputs of a step are drawn only where the step consults them: a      *)
(* launch fault when it launches, a failing write when it writes a log.     *)

\* joinMeeting(m) would pass its guard
Launches(ms, m) == ms.meetings[m].botState \notin {"joining", "connected"}

\* leaveMeeting(m) would write the log of m
Saves(ms, m) ==
    ms.botWindows[m] # 0 /\ ms.meetings[m].known /\ transcriptHistories[m] > 0

FaultsIf(willLaunch) == IF willLaunch THEN LaunchFaults ELSE {"ok"}
WriteFailsIf(willSave) == IF willSave THEN BOOLEAN ELSE {FALSE}

(* Transcript texts are sequences of characters.                            *)
TextHi == <<"h", "i">>
TextHeyBot == <<"H", "e", "y", " ", "B", "o", "t">>
TextAssistant == <<"a", "s", "s", "i", "s", "t", "a", "n", "t", "?">>
ApologyText ==
    <<"I", "'", "m", " ", "s", "o", "r", "r", "y", ",", " ", "I", " ",
      "e", "n", "c", "o", "u", "n", "t", "e", "r", "e", "d", " ",
      "a", "n", " ", "e", "r", "r", "o", "r">>
\* what transcription returns when the meeting hears the bot say its apology
TextBotApology == <<"B", "o", "t", " ">> \o ApologyText
\* the text of simulateHello
TextHelloBot ==
    <<"H", "e", "l", "l", "o", " ", "B", "o", "t", ",", " ", "a", "r", "e",
      " ", "y", "o", "u", " ", "t", "h", "e", "r", "e", "?">>

\* String.prototype.toLowerCase, on the letters the texts use
LowerChar(c) ==
    CASE c = "A" -> "a" [] c = "B" -> "b" [] c = "H" -> "h" [] c = "I" -> "i"
      [] OTHER -> c
toLowerCase(text) == [i \in 1..Len(text) |-> LowerChar(text[i])]

\* String.prototype.includes
includes(text, phrase) ==
    \E i \in 0..(Len(text) - Len(phrase)) :
       SubSeq(text, i + 1, i + Len(phrase)) = phrase

\* the bot's fallback apology, as the anti-feedback filter spells it
ApologyPhrase == toLowerCase(ApologyText)
HasApology(text) == includes(toLowerCase(text), ApologyPhrase)

(* A segment delivered by the transcription service.                        *)
Texts == {TextHi, TextHeyBot, TextAssistant, ApologyText, TextBotApology}
Segments == [text : Texts, isFinal : BOOLEAN]

\* handleTranscript of MeetingManager.ts, line 403: the trigger test
BotMentioned(seg) ==
    /\ seg.isFinal
    /\ \/ includes(toLowerCase(seg.text), <<"b", "o", "t">>)
       \/ includes(toLowerCase(seg.text),
                   <<"a", "s", "s", "i", "s", "t", "a", "n", "t">>)

\* what a run of handleTranscript leaves in lastStep
HeardStep(seg, asked) ==
    [NoStep EXCEPT !.heard = IF ~seg.isFinal THEN "interim"
                             ELSE IF HasApology(seg.text) THEN "apology"
                             ELSE "final",
                   !.asked = asked]

-----------------------------------------------------------------------------
(* Part II: actions *)

MgrInit ==
    /\ meetings = [m \in Ids |-> NoMeeting]
    /\ botWindows = [m \in Ids |-> 0]
    /\ transcriptionServices = [m \in Ids |-> 0]
    /\ transcriptHistories = [m \in Ids |-> 0]
    /\ autoManage = TRUE
    /\ windows = [w \in WinIds |-> NoWindow]
    /\ launches = 0
    /\ timer = FALSE
    /\ scansAwaiting = 0
    /\ lastStep = NoStep

\* start(): sets the interval timer and calls scan(), which runs up to
\* "await this.client.getMeetings()"
start ==
    /\ ~timer
    /\ timer' = TRUE
    /\ scansAwaiting < MaxScans
    /\ scansAwaiting' = scansAwaiting + 1
    /\ lastStep' = NoStep
    /\ UNCHANGED <<meetings, botWindows, transcriptionServices,
                   transcriptHistories, autoManage, windows, launches>>
    /\ UNCHANGED notMgr

\* the interval timer fires: () => this.scan(), up to the same await
timerFires ==
    /\ timer
    /\ scansAwaiting < MaxScans
    /\ scansAwaiting' = scansAwaiting + 1
    /\ lastStep' = NoStep
    /\ UNCHANGED <<meetings, botWindows, transcriptionServices,
                   transcriptHistories, autoManage, windows, launches, timer>>
    /\ UNCHANGED notMgr

\* the rest of one run of scan(), from the answer of getMeetings() on
scan ==
    /\ scansAwaiting > 0
    /\ scansAwaiting' = scansAwaiting - 1
    /\ UNCHANGED timer
    /\ \E resp \in Responses :
       LET live == getMeetings(resp)
           listed == ScanUpdate(CurMgr, live)
           saves == \E m \in Ids : /\ live[m] = "absent"
                                    /\ meetings[m].botState = "connected"
                                    /\ Saves(CurMgr, m)
           joins == /\ autoManage
                    /\ \E m \in Ids : RunningWhileIdle(listed.meetings[m])
       IN /\ \A m \in Ids : (m > 1 /\ live[m] # "absent")
                               => (meetings[m - 1].known \/ live[m - 1] # "absent")
          /\ \E fault \in FaultsIf(joins), writeFails \in WriteFailsIf(saves) :
               LET marked == ScanMissing(listed, live, 1, writeFails)
                   joined == IF autoManage THEN ScanAutoJoin(marked, 1, fault)
                             ELSE marked
               IN /\ MgrFits(Known(joined), joined.launches)
                  /\ LogsFit(joined)
                  /\ CommitMgr(joined)
                  /\ lastStep' = StepOf(joined, "scan", resp.kind # "ok")
    /\ UNCHANGED <<transcriptHistories, autoManage>>
    /\ UNCHANGED notMgr

manualJoin(m) ==
    /\ meetings[m].known
    /\ \E fault \in FaultsIf(Launches(CurMgr, m)) :
         LET ms == joinMeeting(CurMgr, m, "join", fault)
         IN /\ MgrFits(Known(ms), ms.launches)
            /\ CommitMgr(ms)
            /\ lastStep' = StepOf(ms, "join", FALSE)
    /\ UNCHANGED <<transcriptHistories, autoManage>>
    /\ UNCHANGED <<timerVars, notMgr>>

manualLeave(m) ==
    /\ meetings[m].known
    /\ \E writeFails \in WriteFailsIf(Saves(CurMgr, m)) :
         LET ms == leaveMeeting(CurMgr, m, writeFails)
         IN /\ LogsFit(ms)
            /\ CommitMgr(ms)
            /\ lastStep' = StepOf(ms, "leave", FALSE)
    /\ UNCHANGED <<transcriptHistories, autoManage>>
    /\ UNCHANGED <<timerVars, notMgr>>

manualRestart(m) ==
    /\ meetings[m].known
    /\ \E writeFails \in WriteFailsIf(Saves(CurMgr, m)) :
         LET left == leaveMeeting(CurMgr, m, writeFails)
         IN \E fault \in FaultsIf(~left.thrown) :
              LET ms == IF left.thrown THEN left
                        ELSE joinMeeting(left, m, "restart", fault)
              IN /\ MgrFits(Known(ms), ms.launches)
                 /\ LogsFit(ms)
                 /\ CommitMgr(ms)
                 /\ lastStep' = StepOf(ms, "restart", FALSE)
    /\ UNCHANGED <<transcriptHistories, autoManage>>
    /\ UNCHANGED <<timerVars, notMgr>>

setAutoManage ==
    /\ autoManage' = ~autoManage
    /\ lastStep' = NoStep
    /\ UNCHANGED <<meetings, botWindows, transcriptionServices,
                   transcriptHistories, windows, launches>>
    /\ UNCHANGED <<timerVars, notMgr>>

\* while the page of window w loads: "did-fail-load" (the load fails, and
\* loadURL will reject), or "dom-ready" with an injection that fails
pageLoadFails(w) ==
    /\ windows[w].launch = "loading"
    /\ windows[w].state = "open"
    /\ windows[w].failure = "none"
    /\ \E kind \in {"load", "inject"} :
         windows' = [windows EXCEPT ![w].failure = kind]
    /\ lastStep' = NoStep
    /\ UNCHANGED <<meetings, botWindows, transcriptionServices,
                   transcriptHistories, autoManage, launches>>
    /\ UNCHANGED <<timerVars, notMgr>>

\* "await win.loadURL(joinUrl)" settles, resolved or rejected (the catch
\* clause only logs): the rest of launchBotBrowser and of joinMeeting
loadURLSettled(w) ==
    /\ windows[w].launch = "loading"
    /\ LET m == windows[w].m
           rec == meetings[m]
       IN /\ windows' = [windows EXCEPT ![w].launch = "done",
                                        ![w].closedHandler = TRUE,
                                        ![w].failure = "none"]
          /\ meetings' = [meetings EXCEPT ![m] =
                 [SetState(rec, "connected") EXCEPT !.lastError = "none"]]
    /\ lastStep' = NoStep
    /\ UNCHANGED <<botWindows, transcriptionServices, transcriptHistories,
                   autoManage, launches>>
    /\ UNCHANGED <<timerVars, notMgr>>

\* window w is gone: after close(), or closed by the user or a crash;
\* its "closed" event reaches the handler if one is registered by then
windowClosed(w) ==
    /\ windows[w].state \in {"open", "closing"}
    /\ LET ms == [CurMgr EXCEPT !.windows[w].state = "destroyed"]
       IN CommitMgr(IF windows[w].closedHandler THEN closedHandler(ms, w)
                    ELSE ms)
    /\ lastStep' = NoStep
    /\ UNCHANGED <<transcriptHistories, autoManage>>
    /\ UNCHANGED <<timerVars, notMgr>>

\* the service of launch w delivers a transcript segment: handleTranscript
\* appends it to the history of the meeting and, for a final segment that
\* mentions the bot, requests a reply from the language model; the rest of
\* the reply flow (text to speech, 'bot:speak' to the window) changes no
\* state of the coordinator
handleTranscript(w) ==
    /\ windows[w].service = "open"
    /\ transcriptHistories[windows[w].m] < MaxHistory
    /\ transcriptHistories' =
          [transcriptHistories EXCEPT ![windows[w].m] = @ + 1]
    /\ \E seg \in Segments : lastStep' = HeardStep(seg, BotMentioned(seg))
    /\ UNCHANGED <<meetings, botWindows, transcriptionServices, autoManage,
                   windows, launches>>
    /\ UNCHANGED <<timerVars, notMgr>>

\* simulateHello(m): handleTranscript without a window argument
simulateHello(m) ==
    /\ botWindows[m] # 0
    /\ transcriptHistories[m] < MaxHistory
    /\ transcriptHistories' = [transcriptHistories EXCEPT ![m] = @ + 1]
    /\ LET seg == [text |-> TextHelloBot, isFinal |-> TRUE]
       IN lastStep' = HeardStep(seg, BotMentioned(seg))
    /\ UNCHANGED <<meetings, botWindows, transcriptionServices, autoManage,
                   windows, launches>>
    /\ UNCHANGED <<timerVars, notMgr>>

MgrNext ==
    \/ start
    \/ timerFires
    \/ scan
    \/ \E m \in Ids : manualJoin(m)
    \/ \E m \in Ids : manualLeave(m)
    \/ \E m \in Ids : manualRestart(m)
    \/ setAutoManage
    \/ \E w \in WinIds : pageLoadFails(w)
    \/ \E w \in WinIds : loadURLSettled(w)
    \/ \E w \in WinIds : windowClosed(w)
    \/ \E w \in WinIds : handleTranscript(w)
    \/ \E m \in Ids : simulateHello(m)

-----------------------------------------------------------------------------
(* Part IV (SpecMon): the Transport Monitor, src/unnamed/part_005           *)
(* (BBBMonitor), as src/electron/main.ts starts it.                         *)

MaxMonIds == 2
MaxPayload == 2
MaxPolls == 2
MaxDetected == 2

MonIds == 1..MaxMonIds

\* the meeting identifiers a payload lists, in order, repetitions included
Payloads == UNION {[1..n -> MonIds] : n \in 0..MaxPayload}

(* What axios.get yields.  arrived = FALSE: the request failed (network     *)
(* error, timeout, error status) and axios throws.  Otherwise the body      *)
(* starts with firstChar ("" for an empty body), parses says whether        *)
(* JSON.parse or parseStringPromise accepts it, returncode is the           *)
(* returncode element of an XML body, payload the meetings it lists.        *)
MonResponses ==
    [arrived : {FALSE}, firstChar : {""}, parses : {FALSE},
     returncode : {"none"}, payload : {<<>>}]
    \cup [arrived : {TRUE}, firstChar : {"", "x"}, parses : {FALSE},
          returncode : {"none"}, payload : {<<>>}]
    \cup [arrived : {TRUE}, firstChar : {"[", "{"}, parses : BOOLEAN,
          returncode : {"none"}, payload : Payloads]
    \cup [arrived : {TRUE}, firstChar : {"<"}, parses : BOOLEAN,
          returncode : {"SUCCESS", "FAILED"}, payload : Payloads]

(* What the step just taken did: whether it was the rest of a run of        *)
(* checkMeetings, the response that run got, the identifiers that were      *)
(* already notified before it, and those it invoked the callback for.       *)
NoPoll ==
    [polled |-> FALSE,
     resp |-> [arrived |-> FALSE, firstChar |-> "", parses |-> FALSE,
               returncode |-> "none", payload |-> <<>>],
     before |-> {}, called |-> {}]

\* processMeeting that invokes the callback without consulting the set
processMeetingAlways(st, id) ==
    [st EXCEPT !.detected[id] = @ + 1, !.called = @ \cup {id}]

\* processMeeting without this.joinedMeetings.add(meetingID)
processMeetingForgets(st, id) ==
    IF id \notin st.joined
    THEN [st EXCEPT !.detected[id] = @ + 1, !.called = @ \cup {id}]
    ELSE st

\* processMeeting, on st = [joined, detected, called]
processMeeting(st, id) ==
    IF id \notin st.joined
    THEN [st EXCEPT !.joined = @ \cup {id},
                    !.detected[id] = @ + 1,
                    !.called = @ \cup {id}]
    ELSE st

\* the loops over the meetings of a payload, from position i on
RECURSIVE ProcessAll(_, _, _)
ProcessAll(st, payload, i) ==
    IF i > Len(payload) THEN st
    ELSE ProcessAll(processMeeting(st, payload[i]), payload, i + 1)

\* handleXmlResponse that does not look at the return code
handleXmlResponseAnyCode(st, resp) ==
    IF ~resp.parses THEN st ELSE ProcessAll(st, resp.payload, 1)

\* handleXmlResponse; a body the parser rejects throws, which checkMeetings
\* catches and logs
handleXmlResponse(st, resp) ==
    IF ~resp.parses THEN st
    ELSE IF resp.returncode # "SUCCESS" THEN st
    ELSE ProcessAll(st, resp.payload, 1)

\* handleJsonResponse; only an array is looked at, a JSON.parse error is
\* caught and logged
handleJsonResponse(st, resp) ==
    IF ~resp.parses THEN st
    ELSE IF resp.firstChar = "[" THEN ProcessAll(st, resp.payload, 1)
    ELSE st

\* checkMeetings from the answer of axios.get on
checkMeetings(st, resp) ==
    IF ~resp.arrived THEN st
    ELSE IF resp.firstChar = "" THEN st
    ELSE IF resp.firstChar \in {"[", "{"} THEN handleJsonResponse(st, resp)
    ELSE IF resp.firstChar = "<" THEN handleXmlResponse(st, resp)
    ELSE st

MonInit ==
    /\ joinedMeetings = {}
    /\ checkInterval = FALSE
    /\ pollsInFlight = 0
    /\ detected = [id \in MonIds |-> 0]
    /\ lastPoll = NoPoll

\* monitor.start(): checkMeetings() up to its await, then setInterval
monitorStart ==
    /\ ~checkInterval
    /\ checkInterval' = TRUE
    /\ pollsInFlight' = pollsInFlight + 1
    /\ lastPoll' = NoPoll
    /\ UNCHANGED <<joinedMeetings, detected>>
    /\ UNCHANGED notMon

\* the polling timer fires: checkMeetings() up to its await
monitorTick ==
    /\ checkInterval
    /\ pollsInFlight < MaxPolls
    /\ pollsInFlight' = pollsInFlight + 1
    /\ lastPoll' = NoPoll
    /\ UNCHANGED <<joinedMeetings, checkInterval, detected>>
    /\ UNCHANGED notMon

\* axios.get of one run settles: the rest of checkMeetings
pollAnswered ==
    /\ pollsInFlight > 0
    /\ pollsInFlight' = pollsInFlight - 1
    /\ \E resp \in MonResponses :
         LET st == checkMeetings([joined |-> joinedMeetings,
                                  detected |-> detected, called |-> {}], resp)
         IN /\ \A id \in MonIds : st.detected[id] <= MaxDetected
            /\ joinedMeetings' = st.joined
            /\ detected' = st.detected
            /\ lastPoll' = [polled |-> TRUE, resp |-> resp,
                            before |-> joinedMeetings, called |-> st.called]
    /\ UNCHANGED checkInterval
    /\ UNCHANGED notMon

MonNext ==
    \/ monitorStart
    \/ monitorTick
    \/ pollAnswered

-----------------------------------------------------------------------------
(* Part V (SpecTranscript): the transcript of one meeting whose window is   *)
(* registered, as handleTranscript of src/lib/audioManager.ts keeps it.     *)
(* An absent field of a segment is the empty sequence.                      *)

MaxSpeakers == 2
MaxEntries == 3
MaxReplies == 2

TextBlank == <<" ">>
\* what the language model answers
ReplyText == <<"o", "k">>

\* processDeepgramResponse: the label is built from the index
SpeakerLabel(speakerIndex) == <<"Speaker", speakerIndex>>

\* the segments the transcription service delivers
HeardSegments ==
    {[speaker |-> SpeakerLabel(i), speakerIndex |-> <<i>>, text |-> t,
      isFinal |-> f] :
        i \in 0..(MaxSpeakers - 1),
        t \in {TextHi, TextHeyBot, TextBotApology, TextBlank},
        f \in BOOLEAN}

\* the segment simulateHello passes: no speaker, no index
HelloSegment ==
    [speaker |-> <<>>, speakerIndex |-> <<>>, text |-> TextHelloBot,
     isFinal |-> TRUE]

NoSegment ==
    [speaker |-> <<>>, speakerIndex |-> <<>>, text |-> <<>>, isFinal |-> FALSE]

(* What the step just taken did: op is "segment" (handleTranscript up to   *)
(* its first await), "response" (generateResponse settled) or "audio"       *)
(* (createAudioData settled); appended: an entry was pushed and notified;   *)
(* asked: generateResponse was called; llm and tts: how the request that    *)
(* settled went; spoke: the text whose audio was sent on 'bot-speak' (none: *)
(* the empty sequence); rejected: the promise of handleTranscript rejected. *)
NoHeard ==
    [op |-> "none", appended |-> FALSE, asked |-> FALSE, llm |-> "none",
     tts |-> "none", spoke |-> <<>>, rejected |-> FALSE]

\* !segment.text || segment.text.trim().length === 0
IsBlank(text) == \A i \in DOMAIN text : text[i] = " "

\* segment.speaker || "Speaker"
CurrentSpeaker(seg) == IF seg.speaker = <<>> THEN <<"Speaker">> ELSE seg.speaker

\* the consecutive-duplicate test, lines 696-701
IsDuplicate(hist, seg) ==
    /\ Len(hist) > 0
    /\ hist[Len(hist)].text = seg.text
    /\ hist[Len(hist)].speaker = CurrentSpeaker(seg)

triggerWords ==
    {<<"b", "o", "t">>,
     <<"a", "s", "s", "i", "s", "t", "a", "n", "t">>,
     <<"a", "i">>,
     <<"h", "e", "y", " ", "b", "o", "t">>,
     <<"h", "e", "l", "l", "o", " ", "b", "o", "t">>,
     <<"h", "e", "l", "l", "o", " ", "b", "o", "b">>}

isBotMentioned(text) ==
    \E trigger \in triggerWords : includes(toLowerCase(text), trigger)

\* the anti-feedback filter, lines 726-729
IsFeedback(text) ==
    \/ includes(toLowerCase(text), ApologyPhrase)
    \/ includes(toLowerCase(text), <<"g", "e", "m", "i", "n", "i">>)
    \/ includes(toLowerCase(text), <<"f", "l", "a", "s", "h">>)
    \/ includes(toLowerCase(text),
                <<"m", "e", "e", "t", "i", "n", "g", " ",
                  "a", "s", "s", "i", "s", "t", "a", "n", "t">>)

SegmentEntry(seg) ==
    [speaker |-> CurrentSpeaker(seg), speakerIndex |-> seg.speakerIndex,
     text |-> seg.text]

botEntry(response) ==
    [speaker |-> <<"Bot">>, speakerIndex |-> <<-1>>, text |-> response]

\* the two GeminiService classes of the repository
GeminiServices == {"aiService.ts", "part_006"}

\* the text part_006 returns when the request fails
FallbackText ==
    ApologyText \o <<" ", "e", "x", "t", "r", "a", "c", "t", "i", "n", "g",
                     " ", "t", "h", "a", "t", " ", "i", "n", "f", "o", "r",
                     "m", "a", "t", "i", "o", "n", ".">>

\* how the request to the language model goes
LLMOutcomes == {"answers", "empty", "fails"}

\* GeminiService.generateResponse, as the caller sees it: aiService.ts
\* rethrows a failure, part_006 returns the fallback text
generateResponse(service, llm) ==
    CASE llm = "answers" -> [thrown |-> FALSE, text |-> ReplyText]
      [] llm = "empty" -> [thrown |-> FALSE, text |-> <<>>]
      [] OTHER -> IF service = "part_006"
                  THEN [thrown |-> FALSE, text |-> FallbackText]
                  ELSE [thrown |-> TRUE, text |-> <<>>]

\* history.unshift in the place of history.push
unshift(hist, entry) == <<entry>> \o hist

\* history.push
push(hist, entry) == Append(hist, entry)

\* a sequence without its i-th element
Without(seq, i) == SubSeq(seq, 1, i - 1) \o SubSeq(seq, i + 1, Len(seq))

TrStart(service) ==
    /\ history = <<>>
    /\ emitted = 0
    /\ awaitingLLM = <<>>
    /\ awaitingTTS = <<>>
    /\ lastSegment = NoSegment
    /\ lastHeard = NoHeard
    /\ aiService = service

TrInit == TrStart("aiService.ts")

\* handleTranscript(meetingID, seg, win) up to its first await
handleTranscriptFiltered(seg) ==
    LET appends == /\ ~IsBlank(seg.text)
                   /\ seg.isFinal
                   /\ ~IsDuplicate(history, seg)
        asks == appends /\ isBotMentioned(seg.text) /\ ~IsFeedback(seg.text)
    IN /\ appends => Len(history) < MaxEntries
       /\ asks => Len(awaitingLLM) + Len(awaitingTTS) < MaxReplies
       /\ history' = IF appends THEN push(history, SegmentEntry(seg))
                     ELSE history
       /\ emitted' = IF appends THEN emitted + 1 ELSE emitted
       /\ awaitingLLM' = IF asks THEN Append(awaitingLLM, seg.text)
                         ELSE awaitingLLM
       /\ lastSegment' = seg
       /\ lastHeard' = [NoHeard EXCEPT !.op = "segment",
                                       !.appended = appends, !.asked = asks]
       /\ UNCHANGED <<awaitingTTS, aiService>>
       /\ UNCHANGED notTr

\* the callback given to transcription.connect
transcriptArrives == \E seg \in HeardSegments : handleTranscriptFiltered(seg)

\* simulateHello(meetingID)
simulateHelloSegment == handleTranscriptFiltered(HelloSegment)

\* generateResponse of one reply flow settles: the rest of the flow up to
\* createAudioData
responseSettles ==
    \E i \in DOMAIN awaitingLLM, llm \in LLMOutcomes :
       LET response == generateResponse(aiService, llm)
           replies == ~response.thrown /\ response.text # <<>>
       IN /\ replies => Len(history) < MaxEntries
          /\ awaitingLLM' = Without(awaitingLLM, i)
          /\ history' = IF replies THEN push(history, botEntry(response.text))
                        ELSE history
          /\ emitted' = IF replies THEN emitted + 1 ELSE emitted
          /\ awaitingTTS' = IF replies THEN Append(awaitingTTS, response.text)
                            ELSE awaitingTTS
          /\ lastHeard' = [NoHeard EXCEPT !.op = "response", !.llm = llm,
                                          !.appended = replies]
          /\ UNCHANGED <<lastSegment, aiService>>
          /\ UNCHANGED notTr

\* how the request for speech goes: a buffer, null, or an exception
TTSOutcomes == {"audio", "null", "throws"}

\* audioSettles that sends the speak request whatever createAudioData did
audioSettlesAlways ==
    \E i \in DOMAIN awaitingTTS, tts \in TTSOutcomes :
       /\ awaitingTTS' = Without(awaitingTTS, i)
       /\ lastHeard' = [NoHeard EXCEPT !.op = "audio", !.tts = tts,
                                       !.spoke = awaitingTTS[i]]
       /\ UNCHANGED <<history, emitted, awaitingLLM, lastSegment, aiService>>
       /\ UNCHANGED notTr

\* createAudioData of one reply flow settles: the rest of the flow.  The
\* send throws, inside the try, when the window is destroyed by then
audioSettles ==
    \E i \in DOMAIN awaitingTTS, tts \in TTSOutcomes, alive \in BOOLEAN :
       /\ awaitingTTS' = Without(awaitingTTS, i)
       /\ lastHeard' = [NoHeard EXCEPT
                          !.op = "audio", !.tts = tts,
                          !.spoke = IF tts = "audio" /\ alive
                                    THEN awaitingTTS[i] ELSE <<>>]
       /\ UNCHANGED <<history, emitted, awaitingLLM, lastSegment, aiService>>
       /\ UNCHANGED notTr

TrNext ==
    \/ transcriptArrives
    \/ simulateHelloSegment
    \/ responseSettles
    \/ audioSettles

-----------------------------------------------------------------------------
(* Part VI (SpecSocket): the socket of one TranscriptionService,            *)
(* src/lib/transcription.ts, and the clock its reconnect timer runs on.     *)

maxReconnectAttempts == 3
ReconnectBaseMs == 2000
NormalClosure == 1000
AbnormalClosure == 1006

TickMs == 1000
MaxClockMs == 8000
MaxClosures == 4

\* what the step just taken did: op is "connect", "open", "close",
\* "reconnect" or "tick"; for a close, its code, whether a reconnect was
\* scheduled and with what delay
NoSocketStep == [op |-> "none", code |-> 0, scheduled |-> FALSE, delay |-> 0]

\* the delay ws.onclose gives setTimeout
ReconnectDelay(attempts) == ReconnectBaseMs * attempts

\* the test of ws.onclose
ShouldReconnect(code, attempts) ==
    code # NormalClosure /\ attempts < maxReconnectAttempts

SockInit ==
    /\ ws = "none"
    /\ reconnectAttempts = 0
    /\ reconnectDue = -1
    /\ clock = 0
    /\ closures = 0
    /\ lastSocket = NoSocketStep

\* connect(), called once when the bot window is launched
socketConnect ==
    /\ ws = "none" /\ reconnectDue = -1 /\ closures = 0
    /\ lastSocket.op = "none"
    /\ ws' = "connecting"
    /\ lastSocket' = [NoSocketStep EXCEPT !.op = "connect"]
    /\ UNCHANGED <<reconnectAttempts, reconnectDue, clock, closures>>
    /\ UNCHANGED notSock

\* ws.onopen
socketOpens ==
    /\ ws = "connecting"
    /\ ws' = "open"
    /\ reconnectAttempts' = 0
    /\ closures' = 0
    /\ lastSocket' = [NoSocketStep EXCEPT !.op = "open"]
    /\ UNCHANGED <<reconnectDue, clock>>
    /\ UNCHANGED notSock

\* ws.onclose, of a socket that was open or that failed to open
socketCloses ==
    /\ ws \in {"connecting", "open"}
    /\ \E code \in {NormalClosure, AbnormalClosure} :
         LET again == ShouldReconnect(code, reconnectAttempts)
             delay == ReconnectDelay(reconnectAttempts)
             abnormal == IF code # NormalClosure THEN closures + 1 ELSE closures
         IN /\ abnormal <= MaxClosures
            /\ ws' = "none"
            /\ closures' = abnormal
            /\ reconnectDue' = IF again THEN clock + delay ELSE reconnectDue
            /\ lastSocket' = [op |-> "close", code |-> code,
                              scheduled |-> again,
                              delay |-> IF again THEN delay ELSE 0]
    /\ UNCHANGED <<reconnectAttempts, clock>>
    /\ UNCHANGED notSock

\* the reconnect timer fires: reconnectAttempts++ and connect()
reconnectFires ==
    /\ reconnectDue >= 0
    /\ clock >= reconnectDue
    /\ reconnectDue' = -1
    /\ reconnectAttempts' = reconnectAttempts + 1
    /\ ws' = "connecting"
    /\ lastSocket' = [NoSocketStep EXCEPT !.op = "reconnect"]
    /\ UNCHANGED <<clock, closures>>
    /\ UNCHANGED notSock

(* disconnect(): ws.close(1000, ...) and this.ws = null.  this.ws is set    *)
(* while a socket is connecting or open and after one has closed; closing a  *)
(* socket that has closed raises no further close event.                     *)
disconnect ==
    /\ ws \in {"connecting", "open"} \/ (ws = "none" /\ lastSocket.op # "none")
    /\ ws' = IF ws = "none" THEN "released" ELSE "closing"
    /\ lastSocket' = [NoSocketStep EXCEPT !.op = "disconnect"]
    /\ UNCHANGED <<reconnectAttempts, reconnectDue, clock, closures>>
    /\ UNCHANGED notSock

\* ws.onclose of the socket that disconnect() closed with code 1000
intentionalClose ==
    /\ ws = "closing"
    /\ LET again == ShouldReconnect(NormalClosure, reconnectAttempts)
           delay == ReconnectDelay(reconnectAttempts)
       IN /\ ws' = "released"
          /\ reconnectDue' = IF again THEN clock + delay ELSE reconnectDue
          /\ lastSocket' = [op |-> "close", code |-> NormalClosure,
                            scheduled |-> again,
                            delay |-> IF again THEN delay ELSE 0]
    /\ UNCHANGED <<reconnectAttempts, clock, closures>>
    /\ UNCHANGED notSock

\* time passes
clockTicks ==
    /\ clock + TickMs <= MaxClockMs
    /\ clock' = clock + TickMs
    /\ lastSocket' = [NoSocketStep EXCEPT !.op = "tick"]
    /\ UNCHANGED <<ws, reconnectAttempts, reconnectDue, closures>>
    /\ UNCHANGED notSock

SockNext ==
    \/ socketConnect
    \/ socketOpens
    \/ socketCloses
    \/ reconnectFires
    \/ disconnect
    \/ intentionalClose
    \/ clockTicks

-----------------------------------------------------------------------------
(* Part VII (SpecApp): the Electron main process, src/electron/main.ts:     *)
(* createMeetingWindow and the IPC handlers.                                *)
(*                                                                          *)
(* The window registered for an identifier is                               *)
(*   "none"     no entry in meetingWindows                                  *)
(*   "loading"  created, loadURL pending, no 'closed' handler yet           *)
(*   "gone"     destroyed while loadURL was pending: the entry remains      *)
(*   "open"     loaded, 'closed' handler registered                         *)
(*   "closing"  close() was called on it, its 'closed' event is pending     *)

MaxAppIds == 2
MAX_CONCURRENT_MEETINGS == 5

AppIds == 1..MaxAppIds
\* the argument of 'close-meeting': an identifier, one that names no
\* session (UnknownId), or none at all (NoId)
NoId == 0
UnknownId == MaxAppIds + 1

(* What the step just taken did: op is "join", "bad-url", "loaded",         *)
(* "closed", "close-meeting" or "speak"; arg the identifier given;          *)
(* closedWindows the identifiers whose window close() was called on;        *)
(* spokeTo the identifiers whose window was sent 'bot-speak'; reply what    *)
(* a 'join-meeting' request was answered in the step: "success" for         *)
(* {success: true}, "error" for a rejection, "none" for no answer.          *)
NoAppStep ==
    [op |-> "none", arg |-> NoId, closedWindows |-> {}, spokeTo |-> {},
     reply |-> "none"]

\* win.isDestroyed()
isDestroyed(state) == state = "gone"

\* this.windows.meetingWindows.has(id)
HasWindow(wins, id) == id \in DOMAIN wins /\ wins[id] # "none"

\* win.close()
closeWindow(state) == IF state = "open" THEN "closing"
                      ELSE IF state = "loading" THEN "gone"
                      ELSE state

\* the windows the 'close-meeting' handler calls close() on
CloseTargets(wins, arg) ==
    IF arg # NoId /\ HasWindow(wins, arg)
    THEN {id \in {arg} : ~isDestroyed(wins[id])}
    ELSE {id \in DOMAIN wins : HasWindow(wins, id) /\ ~isDestroyed(wins[id])}

\* the windows the 'bot-speak-data' handler sends 'bot-speak' to
SpeakTargets(wins) ==
    {id \in DOMAIN wins : HasWindow(wins, id) /\ ~isDestroyed(wins[id])}

AppInit ==
    /\ meetingWindows = [id \in AppIds |-> "none"]
    /\ activeBotDetails = {}
    /\ announced = {}
    /\ refused = {}
    /\ awaitingJoin = {}
    /\ lastApp = NoAppStep

\* this.windows.meetingWindows.size
Size(wins) == Cardinality({k \in DOMAIN wins : HasWindow(wins, k)})

(* createMeetingWindow(url, id) up to "await win.loadURL(meetingUrl)", on    *)
(* app = [wins, details, announced, refused]: the maps, the identifiers the  *)
(* dashboard was sent 'bot-joined' for, and those that met the ceiling.      *)
registerWindow(app, id) ==
    IF HasWindow(app.wins, id) THEN app
    ELSE IF Size(app.wins) >= MAX_CONCURRENT_MEETINGS
    THEN [app EXCEPT !.refused = @ \cup {id}]
    ELSE [wins |-> [app.wins EXCEPT ![id] = "loading"],
          details |-> app.details \cup {id},
          announced |-> app.announced \cup {id},
          refused |-> app.refused \ {id}]

CurApp == [wins |-> meetingWindows, details |-> activeBotDetails,
           announced |-> announced, refused |-> refused]

CommitApp(app) ==
    /\ meetingWindows' = app.wins
    /\ activeBotDetails' = app.details
    /\ announced' = app.announced
    /\ refused' = app.refused

(* ipcMain.handle('join-meeting') for a URL that names meeting id, up to    *)
(* the await in createMeetingWindow.  new URL(url) throws on a string that  *)
(* does not parse; a call that returns before its await is answered in the  *)
(* same step.                                                               *)
createMeetingWindow(id) ==
    \E parses \in BOOLEAN :
       IF ~parses
       THEN /\ lastApp' = [NoAppStep EXCEPT !.op = "bad-url",
                                            !.reply = "error"]
            /\ UNCHANGED <<meetingWindows, activeBotDetails, announced,
                           refused, awaitingJoin>>
            /\ UNCHANGED notApp
       ELSE LET app == registerWindow(CurApp, id)
                awaits == ~HasWindow(meetingWindows, id)
                             /\ HasWindow(app.wins, id)
            IN /\ CommitApp(app)
               /\ awaitingJoin' = IF awaits THEN awaitingJoin \cup {id}
                                   ELSE awaitingJoin
               /\ lastApp' = [NoAppStep EXCEPT
                                !.op = "join", !.arg = id,
                                !.reply = IF awaits THEN "none" ELSE "success"]
               /\ UNCHANGED notApp

(* The answer to the 'join-meeting' request that awaits createMeetingWindow *)
(* for a window in the given state when loadURL settles.  The catch clause  *)
(* ends with win.close(), which throws on a destroyed window.               *)
JoinReply(state, ok) ==
    IF ok THEN "success"
    ELSE IF isDestroyed(state) THEN "error"
    ELSE "success"

LoadReply(id, ok) ==
    IF id \in awaitingJoin THEN JoinReply(meetingWindows[id], ok) ELSE "none"

\* appLoadSettles without this.activeBotDetails.delete(meetingId) in the
\* catch clause
appLoadSettlesKeepsDetails(id) ==
    /\ meetingWindows[id] \in {"loading", "gone"}
    /\ \E ok \in BOOLEAN :
         /\ ok => meetingWindows[id] = "loading"
         /\ meetingWindows' =
               [meetingWindows EXCEPT ![id] = IF ok THEN "open" ELSE "none"]
         /\ lastApp' = [NoAppStep EXCEPT !.op = "loaded", !.arg = id,
                                         !.reply = LoadReply(id, ok)]
    /\ awaitingJoin' = awaitingJoin \ {id}
    /\ UNCHANGED <<activeBotDetails, announced, refused>>
    /\ UNCHANGED notApp

\* loadURL settles: the handlers are registered, or the catch clause
\* discards the window
appLoadSettles(id) ==
    /\ meetingWindows[id] \in {"loading", "gone"}
    /\ \E ok \in BOOLEAN :
         /\ ok => meetingWindows[id] = "loading"
         /\ IF ok
            THEN /\ meetingWindows' = [meetingWindows EXCEPT ![id] = "open"]
                 /\ UNCHANGED activeBotDetails
            ELSE /\ meetingWindows' = [meetingWindows EXCEPT ![id] = "none"]
                 /\ activeBotDetails' = activeBotDetails \ {id}
         /\ lastApp' = [NoAppStep EXCEPT !.op = "loaded", !.arg = id,
                                         !.reply = LoadReply(id, ok)]
    /\ awaitingJoin' = awaitingJoin \ {id}
    /\ UNCHANGED <<announced, refused>>
    /\ UNCHANGED notApp

\* the window of id is destroyed: closed by the user, or after close()
appWindowClosed(id) ==
    /\ meetingWindows[id] \in {"loading", "open", "closing"}
    /\ IF meetingWindows[id] = "loading"
       THEN /\ meetingWindows' = [meetingWindows EXCEPT ![id] = "gone"]
            /\ UNCHANGED <<activeBotDetails, announced>>
       ELSE /\ meetingWindows' = [meetingWindows EXCEPT ![id] = "none"]
            /\ activeBotDetails' = activeBotDetails \ {id}
            /\ announced' = announced \ {id}  \* send('bot-left')
    /\ lastApp' = [NoAppStep EXCEPT !.op = "closed", !.arg = id]
    /\ UNCHANGED <<refused, awaitingJoin>>
    /\ UNCHANGED notApp

\* ipcMain.handle('close-meeting')
closeMeeting(arg) ==
    LET targets == CloseTargets(meetingWindows, arg)
    IN /\ meetingWindows' =
             [id \in DOMAIN meetingWindows |-> IF id \in targets
                                THEN closeWindow(meetingWindows[id])
                                ELSE meetingWindows[id]]
       /\ lastApp' = [NoAppStep EXCEPT !.op = "close-meeting", !.arg = arg,
                                       !.closedWindows = targets]
       /\ UNCHANGED <<activeBotDetails, announced, refused, awaitingJoin>>
       /\ UNCHANGED notApp

\* ipcMain.on('bot-speak-data'): audio synthesized for meeting id
botSpeakData(id) ==
    /\ HasWindow(meetingWindows, id)
    /\ lastApp' = [NoAppStep EXCEPT !.op = "speak", !.arg = id,
                                    !.spokeTo = SpeakTargets(meetingWindows)]
    /\ UNCHANGED <<meetingWindows, activeBotDetails, announced, refused,
                   awaitingJoin>>
    /\ UNCHANGED notApp

AppNext ==
    \/ \E id \in AppIds : createMeetingWindow(id)
    \/ \E id \in AppIds : appLoadSettles(id)
    \/ \E id \in AppIds : appWindowClosed(id)
    \/ \E arg \in AppIds \cup {NoId, UnknownId} : closeMeeting(arg)
    \/ \E id \in AppIds : botSpeakData(id)

-----------------------------------------------------------------------------
(* Part VIII (SpecAuto): the monitor of Part IV and the main process of      *)
(* Part VII together, as startMeetingMonitor of src/electron/main.ts joins   *)
(* them, with one meeting more than the session ceiling.  The monitor's      *)
(* callback calls createMeetingWindow, which runs up to its await inside     *)
(* the step that handles the poll.  A poll lists the meetings 1..k.          *)

AutoSize == MAX_CONCURRENT_MEETINGS + 1
AutoIds == 1..AutoSize
\* the lengths of the lists the polls report; the meetings the dashboard
\* asks to join or to close and whose windows the user closes
AutoReports == {0, AutoSize}
AutoManual == {1, AutoSize}

\* a getMeetings response that lists the meetings 1..k
Reported(k) ==
    [arrived |-> TRUE, firstChar |-> "<", parses |-> TRUE,
     returncode |-> "SUCCESS", payload |-> [i \in 1..k |-> i]]

(* (joinUrl, meetingId) => this.createMeetingWindow(joinUrl, meetingId),     *)
(* for the meetings of the payload that processMeeting called it for         *)
RECURSIVE onMeetingDetected(_, _, _, _)
onMeetingDetected(app, payload, called, i) ==
    IF i > Len(payload) THEN app
    ELSE onMeetingDetected(IF payload[i] \in called
                           THEN registerWindow(app, payload[i]) ELSE app,
                           payload, called, i + 1)

AutoInit ==
    /\ PageInit /\ MgrInit /\ TrInit /\ SockInit
    /\ joinedMeetings = {}
    /\ checkInterval = FALSE
    /\ pollsInFlight = 0
    /\ detected = [id \in AutoIds |-> 0]
    /\ lastPoll = NoPoll
    /\ meetingWindows = [id \in AutoIds |-> "none"]
    /\ activeBotDetails = {}
    /\ announced = {}
    /\ refused = {}
    /\ awaitingJoin = {}
    /\ lastApp = NoAppStep

\* the answer to a poll arrives: checkMeetings after its await, with the
\* calls of createMeetingWindow its callback makes
pollDetects ==
    /\ pollsInFlight > 0
    /\ pollsInFlight' = pollsInFlight - 1
    /\ \E k \in AutoReports :
         LET resp == Reported(k)
             st == checkMeetings([joined |-> joinedMeetings,
                                  detected |-> detected, called |-> {}], resp)
         IN /\ joinedMeetings' = st.joined
            /\ detected' = st.detected
            /\ lastPoll' = [polled |-> TRUE, resp |-> resp,
                            before |-> joinedMeetings, called |-> st.called]
            /\ CommitApp(onMeetingDetected(CurApp, resp.payload, st.called, 1))
    /\ lastApp' = [NoAppStep EXCEPT !.op = "detected"]
    /\ UNCHANGED <<checkInterval, awaitingJoin>>
    /\ UNCHANGED <<pageVars, mgrVars, trVars, sockVars>>

AutoNext ==
    \/ monitorStart
    \/ monitorTick
    \/ pollDetects
    \/ \E id \in AutoManual : createMeetingWindow(id)
    \/ \E id \in AutoIds : appLoadSettles(id)
    \/ \E id \in AutoManual : appWindowClosed(id)
    \/ \E arg \in AutoManual : closeMeeting(arg)

-----------------------------------------------------------------------------
(* Part III (SpecFleet): the coordinator with more meetings than the        *)
(* session ceiling.  The operations are those of Part II, on records for    *)
(* FleetSize meetings.  The meetings are interchangeable, so the runs       *)
(* explored list them, settle their windows and close them in the order of  *)
(* their identifiers, and have no launch faults and no failing writes.      *)

FleetSize == MAX_CONCURRENT_MEETINGS + 1
FleetIds == 1..FleetSize
FleetWins == 1..FleetSize

FleetInit ==
    /\ PageInit
    /\ meetings = [m \in FleetIds |-> NoMeeting]
    /\ botWindows = [m \in FleetIds |-> 0]
    /\ transcriptionServices = [m \in FleetIds |-> 0]
    /\ transcriptHistories = [m \in FleetIds |-> 0]
    /\ autoManage = TRUE
    /\ windows = [w \in FleetWins |-> NoWindow]
    /\ launches = 0
    /\ timer = FALSE
    /\ scansAwaiting = 0
    /\ lastStep = NoStep
    /\ MonInit
    /\ TrInit
    /\ SockInit
    /\ AppInit

\* the listing has all the meetings running, or none
FleetListings ==
    {[kind |-> "ok",
      list |-> [m \in FleetIds |-> IF m <= k THEN "running" ELSE "absent"]] :
        k \in {0, FleetSize}}

FleetFits(ms) == ms.launches <= FleetSize

\* the rest of one run of scan(), from the answer of getMeetings() on
fleetScan ==
    /\ scansAwaiting > 0
    /\ scansAwaiting' = scansAwaiting - 1
    /\ \E resp \in FleetListings :
         LET live == getMeetings(resp)
             marked == ScanMissing(ScanUpdate(CurMgr, live), live, 1, FALSE)
             joined == IF autoManage THEN ScanAutoJoin(marked, 1, "ok")
                       ELSE marked
         IN /\ FleetFits(joined)
            /\ CommitMgr(joined)
            /\ lastStep' = StepOf(joined, "scan", FALSE)
    /\ UNCHANGED <<transcriptHistories, autoManage, timer>>
    /\ UNCHANGED notMgr

\* manualJoin, for the first known meeting without a registered window
fleetJoin(m) ==
    /\ meetings[m].known
    /\ botWindows[m] = 0
    /\ \A k \in 1..(m - 1) : botWindows[k] # 0
    /\ LET ms == joinMeeting(CurMgr, m, "join", "ok")
       IN /\ FleetFits(ms)
          /\ CommitMgr(ms)
          /\ lastStep' = StepOf(ms, "join", FALSE)
    /\ UNCHANGED <<transcriptHistories, autoManage>>
    /\ UNCHANGED <<timerVars, notMgr>>

\* manualLeave, for the last meeting with a registered window
fleetLeave(m) ==
    /\ botWindows[m] # 0
    /\ \A k \in (m + 1)..FleetSize : botWindows[k] = 0
    /\ LET ms == leaveMeeting(CurMgr, m, FALSE)
       IN /\ CommitMgr(ms)
          /\ lastStep' = StepOf(ms, "leave", FALSE)
    /\ UNCHANGED <<transcriptHistories, autoManage>>
    /\ UNCHANGED <<timerVars, notMgr>>

\* loadURL settles for the first window still loading
fleetLoaded(w) ==
    /\ \A v \in 1..(w - 1) : windows[v].launch # "loading"
    /\ loadURLSettled(w)

\* the first window not yet destroyed is gone
fleetClosed(w) ==
    /\ \A v \in 1..(w - 1) : windows[v].state \notin {"open", "closing"}
    /\ windowClosed(w)

FleetNext ==
    \/ start
    \/ timerFires
    \/ fleetScan
    \/ \E m \in FleetIds : fleetJoin(m)
    \/ \E m \in FleetIds : fleetLeave(m)
    \/ \E w \in FleetWins : fleetLoaded(w)
    \/ \E w \in FleetWins : fleetClosed(w)

-----------------------------------------------------------------------------
(* The specifications *)

Init == PageInit /\ MgrInit /\ MonInit /\ TrInit /\ SockInit /\ AppInit

SpecPage == Init /\ [][PageNext]_vars

(* The callbacks of a speak request that holds audioSwapLock.  The page's   *)
(* event loop runs a callback that is due: the interval of                   *)
(* waitForAudioSender and the backoff timer fire, a replaceTrack settles,    *)
(* and a playback that was started comes to its end.                         *)
Due ==
    \/ \E r \in Reqs : PollRetry(r)
    \/ \E r \in Reqs : BackoffElapsed(r)
    \/ \E r \in Reqs : SwapSettled(r)
    \/ \E r \in Reqs : CatchRestoreSettled(r)
    \/ \E r \in Reqs : PlaybackEnded(r)
    \/ EndedRestoreSettled

PageFairness == WF_vars(Due)

(* The page's connections and speak requests, without the events of remote  *)
(* audio (RemoteTrack and its capture timer).                                *)
SpeakNext ==
    \/ NewPeerConnection
    \/ \E c \in Conns : AddTrack(c)
    \/ \E c \in Conns : AddTrackTimer(c)
    \/ \E c \in Conns : ConnectionStateChange(c)
    \/ \E r \in Reqs : Speak(r)
    \/ \E r \in Reqs : PollSender(r)
    \/ Due

SpecSpeak == Init /\ [][SpeakNext]_vars /\ PageFairness

SpecMgr == Init /\ [][MgrNext]_vars

SpecFleet == FleetInit /\ [][FleetNext]_vars

SpecMon == Init /\ [][MonNext]_vars

\* the coordinator is built with either GeminiService
TranscriptInit ==
    /\ PageInit /\ MgrInit /\ MonInit /\ SockInit /\ AppInit
    /\ \E service \in GeminiServices : TrStart(service)

SpecTranscript == TranscriptInit /\ [][TrNext]_vars

SpecSocket == Init /\ [][SockNext]_vars

SpecApp == Init /\ [][AppNext]_vars

(* Electron settles a loadURL that is pending and delivers the 'closed'      *)
(* event of a window close() was called on.                                  *)
AppFairness ==
    \A id \in AppIds :
       /\ WF_vars(appLoadSettles(id))
       /\ WF_vars(meetingWindows[id] = "closing" /\ appWindowClosed(id))

SpecAppFair == Init /\ [][AppNext]_vars /\ AppFairness

SpecAuto == AutoInit /\ [][AutoNext]_vars

-----------------------------------------------------------------------------
(* Part I: properties *)

Holders == {r \in Reqs : req[r].holds}

(* C1: single flight.  At most one speak request holds audioSwapLock at a   *)
(* time, and no request has called replaceTrack with its synthetic track     *)
(* while another request, whose synthetic track is playing, still holds the  *)
(* lock: the later request is rejected.                                      *)
C1_SingleFlight ==
    /\ Cardinality(Holders) <= 1
    /\ \A r1 \in Reqs, r2 \in Reqs :
          (r1 # r2 /\ req[r1].pc = "playing") => req[r2].replaceCalls = 0 \/ ~req[r2].holds

Settled == replaceQueue = <<>> /\ \A r \in Reqs : req[r].pc \in {"idle", "done"}

(* C2: restoration.  Once every continuation has settled, the sender a      *)
(* call put its synthetic track on carries the microphone track again (on a  *)
(* connection that is neither closed nor failed), unless the restoring       *)
(* replaceTrack itself was rejected.                                         *)
C2_RestoredWhenSettled ==
    Settled =>
      \A r \in Reqs :
         (/\ req[r].acquired /\ req[r].swapped # 0 /\ ~req[r].restoreFailed
          /\ ~Dead(activePeerConnections, req[r].swapped))
            => TrackOf(req[r].swapped) = Mic(req[r].swapped)

(* C3: once originalUserTrack is a microphone track of the page, no step    *)
(* makes it a synthetic track or null.                                       *)
C3_OriginalKept ==
    [][IsMic(originalUserTrack) => IsMic(originalUserTrack')]_vars

(* C31: the track replacement of a speak request makes at most 3 attempts;   *)
(* after failed attempt k < 3 it waits min(1000 * 2^(k-1), 5000) ms, after    *)
(* the third failure it does not wait again, and once an attempt succeeded   *)
(* it makes no further attempt.                                              *)
RetryPoints == {"retryWait", "replacing", "backoff"}

C31_BoundedRetry ==
    /\ [](\A r \in Reqs :
            /\ req[r].attempt <= 3 /\ req[r].replaceCalls <= 3
            /\ req[r].pc = "backoff"
                  => /\ req[r].attempt < 3
                     /\ req[r].wait =
                          IF 1000 * 2 ^ (req[r].attempt - 1) <= 5000
                          THEN 1000 * 2 ^ (req[r].attempt - 1) ELSE 5000
            /\ req[r].swapped # 0 => req[r].pc \notin RetryPoints)
    /\ [][\A r \in Reqs :
            /\ req[r].swapped # 0 => req'[r].replaceCalls = req[r].replaceCalls
            /\ (req[r].pc \in RetryPoints /\ req[r].attempt = 3)
                  => req'[r].pc # "backoff"]_vars

C31_Witness ==
    \E r \in Reqs : /\ req[r].replaceCalls = 3 /\ req[r].swapped = 0
                    /\ req[r].result = "failed"

(* C32: when an attempt failed on a closed or failed connection and a live   *)
(* connection with an audio sender exists as the next attempt looks for one, *)
(* that attempt binds to it and calls replaceTrack on its audio sender.       *)
LiveSender == findMediaPeerConnectionWithAudioSender(activePeerConnections)

LastOp(q) == q[Len(q)]

C32_RetryTargetsLive ==
    [][\A r \in Reqs :
         (/\ req[r].lost /\ req[r].pc \in {"backoff", "retryWait"}
          /\ req'[r].pc # req[r].pc
          /\ LiveSender # 0)
           => /\ req'[r].pc = "replacing"
              /\ localPeerConnection' = LiveSender
              /\ localAudioSender' = LiveSender
              /\ replaceQueue' # <<>>
              /\ LastOp(replaceQueue') = ReplaceOp(LiveSender, Bot(r), r, TRUE)]_vars

C32_Witness ==
    \E r \in Reqs :
       /\ req[r].lost /\ req[r].swapped # 0 /\ req[r].pc = "playing"
       /\ ~Dead(activePeerConnections, req[r].swapped)
       /\ TrackOf(req[r].swapped) = Bot(r)
       /\ \E c \in 1..NConns : c # req[r].swapped /\ Dead(activePeerConnections, c)

(* C33: playback of a speak request starts only in the step in which a       *)
(* replaceTrack of its synthetic track resolved, so a started request has    *)
(* swapped a sender's track; a request whose attempts all failed never       *)
(* starts playback.                                                          *)
C33_PlayAfterSwap ==
    /\ [](\A r \in Reqs :
            /\ req[r].started => req[r].swapped # 0
            /\ (req[r].pc = "done" /\ req[r].swapped = 0) => ~req[r].started)
    /\ [][\A r \in Reqs :
            (~req[r].started /\ req'[r].started)
               => /\ req[r].pc = "replacing"
                  /\ req'[r].swapped # 0
                  /\ activePeerConnections'[req'[r].swapped].track = Bot(r)]_vars

C33_Witness ==
    /\ \E r \in Reqs : req[r].started
    /\ \E r \in Reqs : /\ req[r].replaceCalls = MaxRetries /\ req[r].swapped = 0
                        /\ req[r].pc = "done" /\ ~req[r].started

(* C34: a speak request that took audioSwapLock eventually releases it,     *)
(* whether its playback ends, its replacement fails after all retries or an  *)
(* exception is thrown (a playback that started is taken to end).            *)
C34_LockReleased ==
    \A r \in Reqs : req[r].holds ~> (~req[r].holds /\ req[r].pc = "done")

C34_Witness ==
    /\ ~audioSwapLock
    /\ \E r \in Reqs : req[r].acquired /\ ~req[r].holds /\ req[r].result = "failed"
    /\ \E r \in Reqs : req[r].acquired /\ ~req[r].holds /\ req[r].result = "played"

(* C29: each distinct remote audio track is connected to the transcription  *)
(* pipeline at most once, however often it is reported by 'track' events.    *)
C29_TrackConnectedOnce ==
    \A t \in RemoteTracks : transcriptionSources[t] <= 1

(* C30: in a step in which a connection becomes closed or failed, the        *)
(* binding's connection afterwards is the most recently created connection   *)
(* that is connected (or connecting) and has an audio sender, when there is   *)
(* one, and the step never moves the binding to a connection that is closed,  *)
(* failed or without an audio sender.                                         *)
Rebindable(conns) ==
    {c \in 1..Len(conns) :
        conns[c].connectionState = "connected" /\ HasAudioSender(conns, c)}

BecomesDead ==
    \E c \in 1..NConns :
       /\ ~Dead(activePeerConnections, c)
       /\ Len(activePeerConnections') = NConns
       /\ Dead(activePeerConnections', c)

C30_RebindsToLiveSender ==
    [][BecomesDead =>
         /\ Rebindable(activePeerConnections') # {}
               => localPeerConnection' = MaxOf(Rebindable(activePeerConnections'))
         /\ localPeerConnection' # localPeerConnection
               => localPeerConnection' \in Rebindable(activePeerConnections')]_vars

(* C4: the lock is released only after the restoring replaceTrack of the    *)
(* releasing call was attempted, and the lock is never free while a          *)
(* synthetic track is on a sender (of a connection neither closed nor        *)
(* failed) and the restoration of the call that put it there has not been    *)
(* attempted.                                                                *)
C4_ReleaseAfterRestore ==
    /\ \A r \in Reqs :
          (/\ req[r].swapped # 0 /\ ~req[r].holds
           /\ ~Dead(activePeerConnections, req[r].swapped))
             => req[r].restoreAttempted
    /\ \A c \in 1..NConns :
          (IsBot(TrackOf(c)) /\ ~audioSwapLock /\ ~Dead(activePeerConnections, c))
             => req[BotReq(TrackOf(c))].restoreAttempted

(* C5: no audio path.  A call that waited for a sender and whose wait ends  *)
(* with no live connection carrying an audio sender returns with the        *)
(* 'no audio sender' failure, and in that step and ever after it has called  *)
(* no replaceTrack, started no playback and not taken audioSwapLock.         *)
NoPathClean(r) ==
    /\ ~req[r].acquired /\ ~req[r].holds
    /\ req[r].replaceCalls = 0 /\ req[r].swapped = 0
    /\ ~req[r].started /\ ~req[r].restoreAttempted

C5_NoAudioPath ==
    /\ [](\A r \in Reqs : req[r].result = "noAudioPath"
                             => req[r].pc = "done" /\ NoPathClean(r))
    /\ [][\A r \in Reqs :
            (/\ req[r].pc = "waitSender"
             /\ req'[r].pc # "waitSender"
             /\ findMediaPeerConnectionWithAudioSender(activePeerConnections) = 0)
            => /\ req'[r].result = "noAudioPath"
               /\ UNCHANGED <<activePeerConnections, audioSwapLock,
                              replaceQueue, localAudioSender,
                              originalUserTrack>>]_vars

C5_Witness == \E r \in Reqs : req[r].result = "noAudioPath"

-----------------------------------------------------------------------------
(* Part II: properties *)

(* C6: one join per transition.  For every meeting, scan has started at     *)
(* most one launch since the record last became running-while-idle, and a   *)
(* scan starts a launch only for a record whose botState, when the scan     *)
(* ran, was neither joining nor connected; also after a leave or a window   *)
(* close set the record back to idle while an earlier join was in progress. *)
C6_OneJoinPerTransition ==
    /\ [](\A m \in Ids : meetings[m].joinsSince <= 1)
    /\ [][\A m \in Ids :
            (lastStep'.by = "scan" /\ m \in lastStep'.launched)
               => meetings[m].botState \notin {"joining", "connected"}]_vars

\* scan launched again for a meeting that a leave or a window close had set
\* back to idle while the window of its earlier join was still loading
C6_Witness ==
    \E m \in Ids, w \in WinIds :
       /\ lastStep.by = "scan" /\ m \in lastStep.launched
       /\ meetings[m].joinsSince = 1
       /\ windows[w].m = m /\ windows[w].launch = "loading"
       /\ botWindows[m] # w

(* C7: a record whose botState is error becomes joining only in a step of   *)
(* the restart command; no scan and no join command makes it joining.       *)
C7_ErrorOnlyRestart ==
    [][\A m \in Ids :
         (meetings[m].botState = "error" /\ meetings'[m].botState = "joining")
            => lastStep'.by = "restart"]_vars

(* C8: a launch that met a failure (the transcription connection, the       *)
(* reading or the injection of the content script, the load of the join     *)
(* URL) ends with botState = error and lastError set, never with            *)
(* botState = connected.                                                    *)
C8_LaunchFailureIsError ==
    [][\A w \in WinIds :
         (/\ windows[w].launch = "loading"
          /\ windows'[w].launch = "done"
          /\ windows[w].failure # "none")
            => /\ meetings'[windows[w].m].botState = "error"
               /\ meetings'[windows[w].m].lastError # "none"]_vars

(* C9: when scan finds a connected meeting absent from the list and runs    *)
(* closeBotBrowser on its window, then after that step the record is idle,  *)
(* the window is closed and no longer registered, the transcription         *)
(* service of that launch is released, and the log, if the meeting has a    *)
(* transcript and the write did not fail, was written before close().       *)
C9_MissingMeetingTornDown ==
    [][\A w \in WinIds :
         (lastStep'.by = "scan" /\ lastStep'.left[w] # "none")
            => /\ meetings'[windows[w].m].botState = "idle"
               /\ windows'[w].state # "open"
               /\ botWindows'[windows[w].m] # w
               /\ windows'[w].service # "open"
               /\ transcriptHistories[windows[w].m] > 0
                     => lastStep'.left[w] \in {"saved", "failed"}]_vars

(* C10: a scan whose listing request failed changes nothing: no record,     *)
(* no registration of a window or of a service, no window, no service.      *)
C10_FailedListingNoChange ==
    [][lastStep'.scanFailed
         => UNCHANGED <<meetings, botWindows, transcriptionServices,
                        windows, launches>>]_vars


(* C11: scan cycles never overlap.  At most one run of scan() is awaiting   *)
(* the meeting list at any time: when the interval timer fires while a run  *)
(* is still awaiting, no second run is entered.                             *)
C11_ScansSerialized ==
    /\ [](scansAwaiting <= 1)
    /\ [][scansAwaiting >= 1 => scansAwaiting' <= scansAwaiting]_vars


(* C15: the close-time cleanup of a session runs once.  However leaves      *)
(* (by command or by scan) and the window's 'closed' event overlap, the     *)
(* log of the session of a window is written at most once, and once the     *)
(* window has been closed by closeBotBrowser its service is disconnected.   *)
C15_CleanupOnce ==
    \A w \in WinIds :
       /\ windows[w].logWrites <= 1
       /\ windows[w].logWrites >= 1 => windows[w].service # "open"

(* C16: every way the window of a session closes ends with the transcript  *)
(* persisted, the service released and the record idle.  When a window      *)
(* that is the latest of its meeting is destroyed, then after that step     *)
(* the log of a non-empty history has been written for it (or the write     *)
(* was attempted), its transcription service is disconnected and the        *)
(* record is idle.                                                          *)
C16_EveryCloseCleansUp ==
    [][\A w \in WinIds :
         (/\ windows[w].state \in {"open", "closing"}
          /\ windows'[w].state = "destroyed"
          /\ botWindows[windows[w].m] \in {0, w})
            => /\ transcriptHistories[windows[w].m] > 0
                     => windows'[w].logWrites >= 1
               /\ windows'[w].service # "open"
               /\ meetings'[windows[w].m].botState = "idle"]_vars

(* C17: continuations of an earlier session are no-ops for a later one.     *)
(* When a later window of the same meeting is registered, neither the       *)
(* 'closed' event of the earlier window nor the continuation of the         *)
(* earlier join (its loadURL settling) changes the registration of the      *)
(* later window, the registration or the connection of the later            *)
(* transcription service, or the record's botState.                         *)
C17_StaleContinuationsNoOp ==
    [][\A w \in WinIds :
         LET m == windows[w].m
             later == botWindows[m]
         IN (/\ m # 0
             /\ later \notin {0, w}
             /\ \/ windows[w].state # "destroyed" /\ windows'[w].state = "destroyed"
                \/ windows[w].launch = "loading" /\ windows'[w].launch = "done")
               => /\ botWindows'[m] = later
                  /\ transcriptionServices'[m] = transcriptionServices[m]
                  /\ windows'[later].service = windows[later].service
                  /\ meetings'[m].botState = meetings[m].botState]_vars


(* C18: only finalized segments are appended.  A run of handleTranscript    *)
(* that was given a segment with isFinal = false adds no entry to the       *)
(* history of any meeting.                                                  *)
C18_OnlyFinalAppended ==
    [][lastStep'.heard = "interim"
         => transcriptHistories' = transcriptHistories]_vars

(* C20: anti-feedback.  A run of handleTranscript that was given a final    *)
(* segment whose text contains the bot's fallback apology requests no       *)
(* reply from the language model (and so no speech), whatever trigger       *)
(* phrases the text also contains.                                          *)
C20_ApologyNeverAsks ==
    [][lastStep'.heard = "apology" => ~lastStep'.asked]_vars


-----------------------------------------------------------------------------
(* Part III: properties *)

\* the bot windows that exist and were not asked to close
OpenWindows == {w \in DOMAIN windows : windows[w].state = "open"}

(* C12: the session ceiling.  At every point at most                        *)
(* MAX_CONCURRENT_MEETINGS bot windows exist, and a join request (of a      *)
(* scan or by command) that arrives when that many exist creates no window  *)
(* and registers no session.                                                *)
C12_SessionCeiling ==
    /\ [](Cardinality(OpenWindows) <= MAX_CONCURRENT_MEETINGS)
    /\ [][Cardinality(OpenWindows) >= MAX_CONCURRENT_MEETINGS
            => /\ launches' = launches
               /\ \A m \in DOMAIN botWindows :
                     botWindows'[m] \in {0, botWindows[m]}]_vars


-----------------------------------------------------------------------------
(* Part IV: properties *)

\* the poll of the step just taken was answered with a list of meetings
\* that the monitor accepts
Listed(poll) ==
    IF ~poll.polled THEN {}
    ELSE IF /\ poll.resp.arrived /\ poll.resp.parses
            /\ \/ poll.resp.firstChar = "["
               \/ poll.resp.firstChar = "<" /\ poll.resp.returncode = "SUCCESS"
         THEN {poll.resp.payload[i] : i \in DOMAIN poll.resp.payload}
         ELSE {}

\* the poll of the step just taken failed: the request failed, the return
\* code is not SUCCESS, or the parser rejected the body
FailedPoll(poll) ==
    /\ poll.polled
    /\ \/ ~poll.resp.arrived
       \/ poll.resp.firstChar \in {"[", "{", "<"} /\ ~poll.resp.parses
       \/ poll.resp.firstChar = "<" /\ poll.resp.returncode # "SUCCESS"

(* C13: one notification per identifier.  The callback has been invoked at  *)
(* most once for every identifier, and after a poll that listed an          *)
(* identifier (once or several times, new or already notified, with other   *)
(* polls in flight or not) it has been invoked exactly once for it; a poll  *)
(* invokes it only for identifiers it lists and that were not notified      *)
(* before.                                                                  *)
C13_NotifiedOnce ==
    /\ \A id \in MonIds : detected[id] <= 1
    /\ \A id \in Listed(lastPoll) : detected[id] = 1
    /\ lastPoll.called = Listed(lastPoll) \ lastPoll.before

\* a poll, answered while another was in flight, listed twice an identifier
\* that an earlier poll had already notified
C13_Witness ==
    /\ pollsInFlight >= 1
    /\ \E id \in lastPoll.before :
          /\ Listed(lastPoll) = {id}
          /\ Len(lastPoll.resp.payload) = 2
          /\ detected[id] = 1

(* C14: a failed poll is inert.  A poll whose request failed, whose return  *)
(* code is not SUCCESS or whose body the parser rejects invokes no          *)
(* callback, leaves the already-notified set as it was and leaves the       *)
(* polling timer set: the run ends and later ticks poll as before.          *)
C14_FailedPollInert ==
    [][FailedPoll(lastPoll')
         => /\ lastPoll'.called = {}
            /\ detected' = detected
            /\ joinedMeetings' = joinedMeetings
            /\ checkInterval' /\ checkInterval
            /\ pollsInFlight' = pollsInFlight - 1]_vars

\* a poll with return code FAILED, listing a meeting not yet notified, was
\* answered and the next poll is already in flight
C14_Witness ==
    /\ FailedPoll(lastPoll)
    /\ lastPoll.resp.arrived /\ lastPoll.resp.parses
    /\ \E i \in DOMAIN lastPoll.resp.payload :
          lastPoll.resp.payload[i] \notin joinedMeetings
    /\ pollsInFlight >= 1


-----------------------------------------------------------------------------
(* Part V: properties *)

\* the step just taken handed handleTranscript a final, non-blank segment
\* whose text is that of the final segment handed to it just before
SameTextAgain ==
    /\ lastHeard'.op = "segment"
    /\ lastSegment.isFinal /\ lastSegment'.isFinal
    /\ ~IsBlank(lastSegment'.text)
    /\ lastSegment'.text = lastSegment.text

(* C19: duplicate suppression.  When the handler is given the same final    *)
(* (speaker index, text) segment as the time before, the history gains no   *)
(* entry and no transcript notification is emitted; when it is given the    *)
(* same text with a different speaker index, the segment is appended and    *)
(* notified.                                                                *)
C19_DuplicateSuppressed ==
    [][SameTextAgain
         => IF lastSegment'.speakerIndex = lastSegment.speakerIndex
            THEN history' = history /\ emitted' = emitted
            ELSE /\ Len(history') = Len(history) + 1
                 /\ emitted' = emitted + 1]_vars


(* C21: fallback on failure.  When the request to the language model made   *)
(* for a triggered entry fails, one entry with speaker "Bot" and the        *)
(* fallback apology as its text is appended to the history and notified,    *)
(* and the handler's promise does not reject.                               *)
C21_FallbackOnFailure ==
    [][lastHeard'.op = "response" /\ lastHeard'.llm = "fails"
         => /\ history' = Append(history, botEntry(FallbackText))
            /\ emitted' = emitted + 1
            /\ ~lastHeard'.rejected]_vars


\* the step just taken appended an entry of the bot
BotEntryAppended ==
    /\ Len(history') > Len(history)
    /\ history'[Len(history')].speaker = <<"Bot">>

(* C22: order of the reply flow.  A final entry containing an address       *)
(* phrase (and not caught by the anti-feedback filter) is appended and the  *)
(* language model is asked with its text, in the same step and before any   *)
(* Bot entry; a Bot entry is appended only when a pending request to the    *)
(* language model settles, one entry with the reply, notified once, and     *)
(* only then is speech requested for that reply; a speak request is sent    *)
(* only when a pending speech request settles with audio, and carries the   *)
(* reply that request was made for; when speech fails the history keeps     *)
(* the Bot entry and nothing is sent.                                       *)
C22_ReplyOrder ==
    [][/\ lastHeard'.op = "segment" /\ lastHeard'.appended
          /\ isBotMentioned(lastSegment'.text) /\ ~IsFeedback(lastSegment'.text)
          => lastHeard'.asked
       /\ lastHeard'.asked
          => /\ lastHeard'.op = "segment"
             /\ history' = Append(history, SegmentEntry(lastSegment'))
             /\ awaitingLLM' = Append(awaitingLLM, lastSegment'.text)
             /\ awaitingTTS' = awaitingTTS
       /\ BotEntryAppended
          => /\ lastHeard'.op = "response"
             /\ \E i \in DOMAIN awaitingLLM :
                   awaitingLLM' = Without(awaitingLLM, i)
             /\ Len(history') = Len(history) + 1
             /\ SubSeq(history', 1, Len(history)) = history
             /\ emitted' = emitted + 1
             /\ awaitingTTS' = Append(awaitingTTS, history'[Len(history')].text)
             /\ lastHeard'.spoke = <<>>
       /\ lastHeard'.op = "response" /\ lastHeard'.llm = "answers"
          => BotEntryAppended /\ history'[Len(history')].text = ReplyText
       /\ lastHeard'.spoke # <<>>
          => /\ lastHeard'.op = "audio" /\ lastHeard'.tts = "audio"
             /\ \E i \in DOMAIN awaitingTTS :
                   /\ awaitingTTS[i] = lastHeard'.spoke
                   /\ awaitingTTS' = Without(awaitingTTS, i)
             /\ \E k \in DOMAIN history : history[k] = botEntry(lastHeard'.spoke)
       /\ lastHeard'.op = "audio"
          => history' = history /\ emitted' = emitted]_vars

\* "Hey Bot" was appended, answered, the reply appended after it, and its
\* audio sent to the window
C22_Witness ==
    /\ lastHeard.op = "audio" /\ lastHeard.spoke = ReplyText
    /\ Len(history) = 2
    /\ history[1].text = TextHeyBot
    /\ history[2] = botEntry(ReplyText)
    /\ emitted = 2


(* C23: arrival order.  Every step leaves the entries already in the        *)
(* history where they are; a final, non-blank segment that is not a         *)
(* consecutive duplicate becomes the last entry in the step that receives   *)
(* it, whatever reply flows are pending; the steps of the reply flows add   *)
(* only entries of the bot.  So the entries derived from transcription      *)
(* stand in the order in which their segments were received.                *)
C23_ArrivalOrder ==
    [][/\ Len(history') >= Len(history)
       /\ SubSeq(history', 1, Len(history)) = history
       /\ lastHeard'.op = "segment" /\ lastSegment'.isFinal
          /\ ~IsBlank(lastSegment'.text) /\ ~IsDuplicate(history, lastSegment')
          => history' = Append(history, SegmentEntry(lastSegment'))
       /\ lastHeard'.op # "segment"
          => \A k \in (Len(history) + 1)..Len(history') :
                history'[k].speaker = <<"Bot">>]_vars

\* a segment was appended behind the Bot entry of an earlier segment whose
\* reply flow is still awaiting speech
C23_Witness ==
    /\ lastHeard.op = "segment" /\ lastHeard.appended
    /\ Len(awaitingTTS) = 1
    /\ Len(history) = 3
    /\ history[1].text = TextHeyBot
    /\ history[2] = botEntry(ReplyText)
    /\ history[3] = SegmentEntry(lastSegment)
    /\ lastSegment.text = TextHi


-----------------------------------------------------------------------------
(* Part VI: properties *)

(* C24: reconnect backoff.  When the socket closes abnormally for the Nth   *)
(* time in a row (no open in between) and a reconnect is scheduled, its     *)
(* delay is at least ReconnectBaseMs * N; and once maxReconnectAttempts     *)
(* attempts have been made no reconnect is scheduled.                       *)
C24_ReconnectBackoff ==
    [][lastSocket'.op = "close"
         => /\ lastSocket'.scheduled /\ lastSocket'.code # NormalClosure
               => lastSocket'.delay >= ReconnectBaseMs * closures'
            /\ reconnectAttempts >= maxReconnectAttempts
               => ~lastSocket'.scheduled /\ reconnectDue' = reconnectDue]_vars


(* C35: after disconnect() the service opens no new socket: no step takes   *)
(* it from disconnected to a socket that is connecting or open, whether a    *)
(* reconnect timer was pending at the call or not, and the close event of    *)
(* the intentional close schedules no reconnect.                             *)
Disconnected == ws \in {"closing", "released"}

C35_NoSocketAfterDisconnect ==
    [][Disconnected
         => /\ ws' \in {"closing", "released"}
            /\ lastSocket'.op = "close" => ~lastSocket'.scheduled]_vars

-----------------------------------------------------------------------------
(* Part II: further properties *)

(* C25: manual mode.  While auto-manage is off, the rest of a scan cycle    *)
(* leaves the botState of every record as it was: it starts no join and     *)
(* no leave.                                                                *)
C25_ManualModeScanInert ==
    [][~autoManage /\ scansAwaiting' < scansAwaiting
         => /\ \A m \in Ids : meetings'[m].botState = meetings[m].botState
            /\ launches' = launches
            /\ lastStep'.left = NoneLeft]_vars


(* The calls of emit() a scan step makes: one by leaveMeeting for every     *)
(* connected record it leaves, one at the head of joinMeeting for every     *)
(* record it joins, one more at the end of joinMeeting when the window      *)
(* cannot be created, and one at the end of scan.                           *)
ScanEmits ==
    Cardinality({m \in Ids : /\ meetings[m].botState = "connected"
                             /\ meetings'[m].botState = "idle"})
    + Cardinality(lastStep'.launched)
    + Cardinality({m \in lastStep'.launched :
                      meetings'[m].botState = "error"})
    + 1

(* C26: auto-join.  With auto-manage on, the rest of a scan cycle that      *)
(* finds a meeting running whose record was absent or idle, and whose       *)
(* window is created, leaves the record joined (joining, then connected     *)
(* once the page has loaded) and notifies the listeners exactly once.       *)
C26_AutoJoinNotifiesOnce ==
    [][\A m \in Ids :
         (/\ scansAwaiting' < scansAwaiting
          /\ autoManage
          /\ meetings[m].botState = "idle"
          /\ meetings'[m].known /\ meetings'[m].isRunning
          /\ meetings'[m].botState # "error")
         => /\ meetings'[m].botState \in {"joining", "connected"}
            /\ m \in lastStep'.launched
            /\ ScanEmits = 1]_vars


(* C36: whenever a record's botState is connected, a bot window and a       *)
(* transcription service are registered for its meeting.                    *)
C36_ConnectedHasWindowAndService ==
    \A m \in Ids :
       meetings[m].botState = "connected"
          => botWindows[m] # 0 /\ transcriptionServices[m] # 0

-----------------------------------------------------------------------------
(* Part VII: properties *)

(* C27: a close request is scoped.  A 'close-meeting' request that carries  *)
(* an identifier calls close() on no window but that meeting's, and leaves  *)
(* the window of every other meeting as it was, also when the identifier    *)
(* names no registered session; only a request without identifier closes    *)
(* all sessions.                                                            *)
C27_CloseIsScoped ==
    [][lastApp'.op = "close-meeting" /\ lastApp'.arg # NoId
         => /\ lastApp'.closedWindows \subseteq {lastApp'.arg}
            /\ \A id \in AppIds \ {lastApp'.arg} :
                  meetingWindows'[id] = meetingWindows[id]]_vars


(* C28: no interference between meetings.  Reply audio synthesized for one  *)
(* meeting is sent, as a speak request, to no window but that meeting's.    *)
C28_SpeechStaysInMeeting ==
    [][lastApp'.op = "speak" => lastApp'.spokeTo \subseteq {lastApp'.arg}]_vars


(* C37: whenever no createMeetingWindow call is between its registration of  *)
(* the window and the settling of loadURL, the identifiers of                *)
(* activeBotDetails are those that have a window in meetingWindows.          *)
MidCreate(id) == meetingWindows[id] \in {"loading", "gone"}

C37_DetailsMatchWindows ==
    (\A id \in AppIds : ~MidCreate(id))
       => activeBotDetails = {id \in AppIds : HasWindow(meetingWindows, id)}

C37_Witness ==
    /\ \A id \in AppIds : ~MidCreate(id)
    /\ activeBotDetails # {}
    /\ lastApp.op = "loaded" /\ meetingWindows[lastApp.arg] = "none"


(* C38: a 'bot-joined' notification for a meeting is eventually followed by  *)
(* a 'bot-left' notification for it once the meeting has no window any more. *)
C38_LeftFollowsJoined ==
    \A id \in AppIds :
       (id \in announced /\ ~HasWindow(meetingWindows, id))
          ~> (id \notin announced)


(* C40: a 'join-meeting' request whose URL parses is answered               *)
(* {success: true}, whether or not a window was created for the meeting.    *)
C40_JoinReportsSuccess ==
    [][lastApp'.reply # "none" /\ lastApp'.op # "bad-url"
          => lastApp'.reply = "success"]_vars

-----------------------------------------------------------------------------
(* Part VIII: properties *)

\* the step is the rest of a run of checkMeetings
PollStep == pollsInFlight' < pollsInFlight

(* C39: a meeting that auto-discovery called createMeetingWindow for stays   *)
(* in the monitor's already-notified set from that step on, whether the call *)
(* registered a window or returned at the session ceiling and whatever       *)
(* became of the window; and no later poll calls createMeetingWindow for a   *)
(* meeting of that set or changes its window, also when the meeting is       *)
(* reported again and a slot is free.                                        *)
C39_NeverJoinedAgain ==
    [][\A id \in AutoIds :
          /\ id \in joinedMeetings => id \in joinedMeetings'
          /\ PollStep /\ id \in lastPoll'.called => id \in joinedMeetings'
          /\ PollStep /\ id \in joinedMeetings
                => /\ id \notin lastPoll'.called
                   /\ meetingWindows'[id] = meetingWindows[id]
                   /\ (id \in announced') = (id \in announced)]_vars

\* a poll has just reported again, with a slot free, a meeting that was
\* refused at the ceiling, and one whose window a load failure discarded
C39_Witness ==
    /\ lastPoll.polled /\ lastApp.op = "detected"
    /\ Size(meetingWindows) < MAX_CONCURRENT_MEETINGS
    /\ \E id \in lastPoll.before :
          /\ \E i \in DOMAIN lastPoll.resp.payload :
                lastPoll.resp.payload[i] = id
          /\ id \in refused /\ detected[id] = 1
          /\ ~HasWindow(meetingWindows, id)
    /\ \E id \in lastPoll.before :
          /\ \E i \in DOMAIN lastPoll.resp.payload :
                lastPoll.resp.payload[i] = id
          /\ id \in announced /\ detected[id] = 1
          /\ ~HasWindow(meetingWindows, id)

=============================================================================
